---- MODULE Spec2Model ----
(***************************************************************************)
(* A model of yatr: the task graph (src/src/graph.rs), the stage plan,     *)
(* the parallel executor (src/src/executor.rs) and the content-addressed   *)
(* cache (src/src/cache.rs).                                               *)
(*                                                                         *)
(* Three specifications share the module:                                  *)
(*   SpecGraph  TaskGraph::from_config, execution_order, from_tasks        *)
(*   SpecExec   Executor::execute with its workers and semaphore           *)
(*   SpecCache  Cache::get / put / invalidate / clear                      *)
(***************************************************************************)
EXTENDS Integers, Sequences, FiniteSets, TLC

VARIABLES
    config,       \* Config.tasks: task name -> [depends, allow_failure]
    gphase,       \* graph pipeline position: "config", "built", "planned"
    graphRes,     \* Result<TaskGraph> of TaskGraph::from_config
    orderRes,     \* Result<Vec<&TaskNode>> of execution_order(target)
    plan,         \* ExecutionPlan.parallel_groups
    target,       \* the task name given to execution_order / execute
    runs,         \* what the ordering functions returned in successive runs
    execCfg,      \* ExecutorConfig: parallelism, dry_run, force; and cache.is_some()
    host,         \* std::thread::available_parallelism(): 0 for Err, else n
    parallelism,  \* execute's local `parallelism`, the semaphore's capacity
    permits,      \* permits the semaphore has left
    ex,           \* where execute is: [pc, group, idx]
    worker,       \* per task: the state of the worker spawned for it
    all_results,  \* execute's all_results
    ret,          \* what execute returned
    enabled,      \* Cache::enabled
    blobs,        \* the <key>.cache files of Cache::dir: path -> output
    metas,        \* the <key>.meta.json files of Cache::dir: path -> content
    srcFile,      \* the content of the file that the sources globs match
    inA, inB,     \* the two (task_name, TaskConfig) that the cache is called with
    last,         \* the get or invalidate performed last, if no other operation came after it
    live,         \* the completed puts whose entry no later operation touched
    nops,         \* the number of cache operations performed
    results,      \* per task: the TaskResult that execute_single_task returned
    hist,         \* per task: what its worker did so far, and the completion order
    watch,        \* watch_and_run: its position, the channel, the runs it made
    cmdrun        \* the commands of one task: the one at hand, its tokens, the result

gvars == <<config, gphase, graphRes, orderRes, plan, target, runs>>
evars == <<execCfg, host, parallelism, permits, ex, worker, all_results, ret>>
cvars == <<enabled, blobs, metas, srcFile, inA, inB, last, live, nops>>
tvars == <<results, hist>>
wvars == <<watch>>
xvars == <<cmdrun>>
vars == <<gvars, evars, cvars, tvars, wvars, xvars>>

-----------------------------------------------------------------------------
(* Bounds and name universes                                               *)

\* The task names a config of the graph specification defines.
Tasks == {"a", "b", "c", "d"}
\* A name no config defines (a depends entry or a target that is no task).
Undefined == "zz"
Names == Tasks \cup {Undefined}
\* The largest number of depends entries, over all tasks of a config.
MaxEdges == 4
\* The task names a config of the executor specification defines, in the
\* order that its depends entries follow (a task depends on earlier ones).
ExecTasks == <<"a", "b", "c">>
\* The largest configured ExecutorConfig.parallelism, and the largest
\* parallelism the host reports.
MaxParallelism == 2
\* The largest number of bytes that the name, the commands, the script, the
\* env and the sources patterns of a cache input have together.
MaxInputLen == 3
\* The largest number of cache operations in one behaviour.
MaxCacheOps == 3

-----------------------------------------------------------------------------
(* Helpers                                                                 *)

RECURSIVE Perms(_)
Perms(S) ==
    IF S = {} THEN {<<>>}
    ELSE UNION {{<<x>> \o p : p \in Perms(S \ {x})} : x \in S}

Range(s) == {s[i] : i \in 1..Len(s)}

Pos(s, x) == CHOOSE i \in 1..Len(s) : s[i] = x

Reverse(s) == [i \in 1..Len(s) |-> s[Len(s) + 1 - i]]

RECURSIVE SetsUpTo(_, _)
SetsUpTo(U, k) ==
    IF k = 0 THEN {{}}
    ELSE LET P == SetsUpTo(U, k - 1) IN P \cup {S \cup {e} : S \in P, e \in U}

NoError == [kind |-> "none", name |-> "", available |-> <<>>, cycle |-> <<>>]

-----------------------------------------------------------------------------
(* TaskGraph::from_config                                                  *)

\* The HashMap config.tasks is iterated in an arbitrary order `it`; node
\* indices follow it, and so does the order in which edges are added.

\* graph.neighbors(n): the targets of n's outgoing edges (dep -> dependent),
\* most recently added edge first.
Neighbors(cfg, it, n) ==
    Reverse(SelectSeq(it, LAMBDA t : n \in cfg[t].depends))

\* The TaskGraph kept after construction: nodes and edges dep -> dependent.
BuildGraph(cfg) ==
    [nodes |-> DOMAIN cfg,
     edges |-> {<<d, t>> \in (DOMAIN cfg) \X (DOMAIN cfg) : d \in cfg[t].depends}]

\* The first task, in iteration order, that lists an undefined dependency.
MissingDeps(cfg, t) == cfg[t].depends \ DOMAIN cfg

HasMissing(cfg) == \E t \in DOMAIN cfg : MissingDeps(cfg, t) # {}

FirstWithMissing(cfg, it) ==
    it[CHOOSE i \in 1..Len(it) :
          /\ MissingDeps(cfg, it[i]) # {}
          /\ \A j \in 1..(i - 1) : MissingDeps(cfg, it[j]) = {}]

\* petgraph::algo::is_cyclic_directed: some node reaches itself along one
\* or more edges (a self-loop included).
RECURSIVE ReachFrom(_, _, _)
ReachFrom(edges, frontier, seen) ==
    LET next == {e[2] : e \in {f \in edges : f[1] \in frontier}} \ seen
    IN  IF next = {} THEN seen ELSE ReachFrom(edges, next, seen \cup next)

\* Mutant: a cycle check that follows edges to other nodes only, so that a
\* self-dependency goes unnoticed.
IsCyclicIgnoringSelfLoops(g) ==
    \E n \in g.nodes :
        n \in ReachFrom({e \in g.edges : e[1] # e[2]}, {n}, {})

IsCyclicDirected(g) ==
    \E n \in g.nodes : n \in ReachFrom(g.edges, {n}, {})

\* dfs_find_cycle: the loop over graph.neighbors(current), from the i-th
\* neighbour on. Returns [found, visited, path].
RECURSIVE DfsFindCycle(_, _, _, _, _, _, _)
DfsFindCycle(cfg, it, nbrs, i, tgt, visited, path) ==
    IF i > Len(nbrs)
    THEN [found |-> FALSE, visited |-> visited, path |-> path]
    ELSE LET nb == nbrs[i] IN
         IF nb = tgt /\ Len(path) > 1
         THEN [found |-> TRUE, visited |-> visited, path |-> Append(path, tgt)]
         ELSE IF nb \notin visited
              THEN LET r == DfsFindCycle(cfg, it, Neighbors(cfg, it, nb), 1, tgt,
                                         visited \cup {nb}, Append(path, nb))
                   IN  IF r.found THEN r
                       ELSE DfsFindCycle(cfg, it, nbrs, i + 1, tgt, r.visited, path)
              ELSE DfsFindCycle(cfg, it, nbrs, i + 1, tgt, visited, path)

\* find_cycle_description: name_to_index is iterated in the order `it2`; each
\* start gets a fresh visited set and the path [name]. The result is the
\* sequence of names that the code joins with " -> ".
RECURSIVE FindCycleFrom(_, _, _, _)
FindCycleFrom(cfg, it, it2, i) ==
    IF i > Len(it2) THEN <<"Unknown cycle">>
    ELSE LET r == DfsFindCycle(cfg, it, Neighbors(cfg, it, it2[i]), 1, it2[i],
                               {}, <<it2[i]>>)
         IN  IF r.found THEN r.path ELSE FindCycleFrom(cfg, it, it2, i + 1)

FindCycleDescription(cfg, it, it2) == FindCycleFrom(cfg, it, it2, 1)

\* from_config for one iteration order of config.tasks (it), one of
\* name_to_index (it2), and the undefined dependency `miss` met first.
FromConfigResult(cfg, it, it2, miss) ==
    IF HasMissing(cfg)
    THEN [ok |-> FALSE, graph |-> [nodes |-> {}, edges |-> {}],
          err |-> [kind |-> "TaskNotFound", name |-> miss,
                   available |-> it, cycle |-> <<>>]]
    ELSE IF IsCyclicDirected(BuildGraph(cfg))
    THEN [ok |-> FALSE, graph |-> [nodes |-> {}, edges |-> {}],
          err |-> [kind |-> "CyclicDependency", name |-> "", available |-> <<>>,
                   cycle |-> FindCycleDescription(cfg, it, it2)]]
    ELSE [ok |-> TRUE, graph |-> BuildGraph(cfg), err |-> NoError]

-----------------------------------------------------------------------------
(* TaskGraph::execution_order and get_ancestors                            *)

\* get_ancestors: target first, then every node the breadth-first search
\* over the reversed graph yields that is not yet in `visited`.
RECURSIVE BfsReversed(_, _, _)
BfsReversed(g, frontier, visited) ==
    LET next == {e[1] : e \in {f \in g.edges : f[2] \in frontier}} \ visited
    IN  IF next = {} THEN visited ELSE BfsReversed(g, next, visited \cup next)

\* Mutant: the ancestors without the target itself.
GetAncestorsWithoutTarget(g, tgt) == BfsReversed(g, {tgt}, {tgt}) \ {tgt}

GetAncestors(g, tgt) == BfsReversed(g, {tgt}, {tgt})

\* petgraph::algo::toposort: some order of all nodes in which every edge
\* points forward; which one is not specified (it depends on node indices).
\* No such order exists when the graph has a cycle.
Toposort(g) ==
    {s \in Perms(g.nodes) : \A e \in g.edges : Pos(s, e[1]) < Pos(s, e[2])}

\* The results execution_order(task_name) can return.
ExecutionOrder(g, task_name) ==
    IF task_name \notin g.nodes
    THEN {[ok |-> FALSE, tasks |-> <<>>,
           err |-> [kind |-> "TaskNotFound", name |-> task_name,
                    available |-> av, cycle |-> <<>>]] : av \in Perms(g.nodes)}
    ELSE IF Toposort(g) = {}
    THEN {[ok |-> FALSE, tasks |-> <<>>,
           err |-> [kind |-> "CyclicDependency", name |-> "", available |-> <<>>,
                    cycle |-> <<"Unknown cycle detected">>]]}
    ELSE LET required_nodes == GetAncestors(g, task_name) IN
         {[ok |-> TRUE,
           tasks |-> SelectSeq(sorted, LAMBDA n : n \in required_nodes),
           err |-> NoError] : sorted \in Toposort(g)}

-----------------------------------------------------------------------------
(* TaskGraph::dependencies and ExecutionPlan::from_tasks                   *)

Dependencies(g, name) == {e[1] : e \in {f \in g.edges : f[2] = name}}

\* The scan of the groups built so far: target_group becomes i + 1 (i counted
\* from 0) for every group that holds a direct dependency; the last match wins.
\* Mutant: target_group = i instead of i + 1.
RECURSIVE TargetGroupSameStage(_, _, _, _)
TargetGroupSameStage(groups, deps, i, target_group) ==
    IF i > Len(groups) THEN target_group
    ELSE TargetGroupSameStage(groups, deps, i + 1,
                     IF \E j \in 1..Len(groups[i]) : groups[i][j] \in deps
                     THEN i - 1 ELSE target_group)

\* Mutant: the scan stops at the first group that holds a dependency.
RECURSIVE TargetGroupFirstMatch(_, _, _, _)
TargetGroupFirstMatch(groups, deps, i, target_group) ==
    IF i > Len(groups) THEN target_group
    ELSE IF \E j \in 1..Len(groups[i]) : groups[i][j] \in deps
         THEN i
         ELSE TargetGroupFirstMatch(groups, deps, i + 1, target_group)

RECURSIVE TargetGroup(_, _, _, _)
TargetGroup(groups, deps, i, target_group) ==
    IF i > Len(groups) THEN target_group
    ELSE TargetGroup(groups, deps, i + 1,
                     IF \E j \in 1..Len(groups[i]) : groups[i][j] \in deps
                     THEN i ELSE target_group)

\* Mutant: a fresh group is pushed for every task.
PlaceTaskAlwaysGrow(groups, task, g) ==
    LET target_group == TargetGroup(groups, Dependencies(g, task), 1, 0)
    IN  [Append(groups, <<>>) EXCEPT ![target_group + 1] = Append(@, task)]

\* Mutant: a task with dependencies opens a new last group.
PlaceTaskAfterLast(groups, task, g) ==
    IF Dependencies(g, task) = {} /\ groups # <<>>
    THEN [groups EXCEPT ![1] = Append(@, task)]
    ELSE Append(groups, <<task>>)

\* One iteration of the loop over tasks: find the group, extend the list of
\* groups when it is one short, push the task.
PlaceTask(groups, task, g) ==
    LET target_group == TargetGroup(groups, Dependencies(g, task), 1, 0)
        grown == IF Len(groups) <= target_group THEN Append(groups, <<>>) ELSE groups
    IN  [grown EXCEPT ![target_group + 1] = Append(@, task)]

RECURSIVE PlaceAll(_, _, _, _)
PlaceAll(tasks, i, groups, g) ==
    IF i > Len(tasks) THEN groups
    ELSE PlaceAll(tasks, i + 1, PlaceTask(groups, tasks[i], g), g)

\* Mutant: one group per task, in the order of the tasks.
FromTasksOnePerStage(tasks, g) == [i \in 1..Len(tasks) |-> <<tasks[i]>>]

\* ExecutionPlan::from_tasks: the parallel_groups, in order.
FromTasks(tasks, g) == PlaceAll(tasks, 1, <<>>, g)

-----------------------------------------------------------------------------
(* The graph specification                                                 *)

\* Every config over Tasks with at most MaxEdges depends entries in all.
GraphConfigs ==
    {[t \in Tasks |-> [depends |-> {e[2] : e \in {f \in E : f[1] = t}},
                       allow_failure |-> FALSE]] :
        E \in SetsUpTo(Tasks \X Names, MaxEdges)}

NoGraph == [ok |-> FALSE, graph |-> [nodes |-> {}, edges |-> {}], err |-> NoError]
NoOrder == [ok |-> FALSE, tasks |-> <<>>, err |-> NoError]

\* The workers' results and history, in the specifications that do not
\* follow execute_single_task step by step.
TaskUnused ==
    /\ results = <<>>
    /\ hist = <<>>

\* The watcher's variable, in the specifications that do not watch.
WatchUnused == watch = <<>>

\* The variable of the commands, in the specifications that do not follow
\* the commands of a task one by one.
CmdUnused == cmdrun = <<>>

\* The cache's variables, in the specifications that use no cache.
CacheUnused ==
    /\ enabled = FALSE
    /\ blobs = <<>>
    /\ metas = <<>>
    /\ srcFile = ""
    /\ inA = <<>>
    /\ inB = <<>>
    /\ last = <<>>
    /\ live = {}
    /\ nops = 0

\* The executor's variables, in the specifications that run no executor.
ExecUnused ==
    /\ execCfg = [parallelism |-> 0, dry_run |-> FALSE, force |-> FALSE, cache |-> FALSE]
    /\ host = 0
    /\ parallelism = 0
    /\ permits = 0
    /\ ex = [pc |-> "idle", group |-> 0, idx |-> 0]
    /\ worker = <<>>
    /\ all_results = <<>>
    /\ ret = [kind |-> "none", task |-> "", code |-> 0]

InitGraph ==
    /\ config \in GraphConfigs
    /\ gphase = "config"
    /\ graphRes = NoGraph
    /\ orderRes = NoOrder
    /\ plan = <<>>
    /\ target = ""
    /\ runs = <<>>
    /\ ExecUnused
    /\ CacheUnused
    /\ TaskUnused
    /\ WatchUnused
    /\ CmdUnused

\* TaskGraph::from_config(&config). The iteration order of name_to_index
\* is read only by find_cycle_description.
FromConfig ==
    /\ gphase = "config"
    /\ \E it \in Perms(DOMAIN config) :
         IF HasMissing(config)
         THEN \E miss \in MissingDeps(config, FirstWithMissing(config, it)) :
                 graphRes' = FromConfigResult(config, it, it, miss)
         ELSE IF IsCyclicDirected(BuildGraph(config))
         THEN \E it2 \in Perms(DOMAIN config) :
                 graphRes' = FromConfigResult(config, it, it2, "")
         ELSE graphRes' = FromConfigResult(config, it, it, "")
    /\ gphase' = "built"
    /\ UNCHANGED <<config, orderRes, plan, target, runs, evars, cvars, tvars, wvars, xvars>>

\* graph.execution_order(task_name) followed by ExecutionPlan::from_tasks,
\* as Executor::execute does.
MakePlan ==
    /\ gphase = "built"
    /\ graphRes.ok
    /\ \E tn \in Names :
         /\ target' = tn
         /\ \E r \in ExecutionOrder(graphRes.graph, tn) :
              /\ orderRes' = r
              /\ plan' = IF r.ok THEN FromTasks(r.tasks, graphRes.graph) ELSE <<>>
    /\ gphase' = "planned"
    /\ UNCHANGED <<config, graphRes, runs, evars, cvars, tvars, wvars, xvars>>

NextGraph == FromConfig \/ MakePlan

SpecGraph == InitGraph /\ [][NextGraph]_vars

-----------------------------------------------------------------------------
(* Properties of the graph and the plan                                    *)

\* The depends relation of a config, restricted to defined tasks, and its
\* transitive closure (by repeated composition).
DependsRel(cfg) ==
    {<<t, d>> \in (DOMAIN cfg) \X (DOMAIN cfg) : d \in cfg[t].depends}

Compose(R, S) ==
    {<<pq[1][1], pq[2][2]>> : pq \in {x \in R \X S : x[1][2] = x[2][1]}}

RECURSIVE TransitiveClosure(_)
TransitiveClosure(R) ==
    LET R2 == R \cup Compose(R, R)
    IN  IF R2 = R THEN R ELSE TransitiveClosure(R2)

\* The tasks that t depends on, directly or transitively.
TransDeps(cfg, t) == {p[2] : p \in {q \in TransitiveClosure(DependsRel(cfg)) : q[1] = t}}

StagesOf(p, t) == {i \in 1..Len(p) : t \in Range(p[i])}

Planned == gphase = "planned" /\ orderRes.ok

\* C1: in the plan built from execution_order(target), every direct
\* dependency of every placed task sits in a stage of strictly smaller index.
C1_TopologicalStages ==
    Planned =>
        \A i \in 1..Len(plan) : \A t \in Range(plan[i]) :
            \A d \in config[t].depends :
                /\ StagesOf(plan, d) # {}
                /\ \A j \in StagesOf(plan, d) : j < i

\* A diamond was planned: three stages, the middle one with two tasks that
\* share a dependency.
C1_Witness ==
    /\ Planned
    /\ Len(plan) = 3
    /\ Len(plan[2]) = 2
    /\ \A t \in Range(plan[2]) : config[t].depends = Range(plan[1])
    /\ config[plan[3][1]].depends = Range(plan[2])

\* C2: no two tasks of one stage are related by a direct or transitive
\* dependency, in either direction.
C2_StageIndependence ==
    Planned =>
        \A i \in 1..Len(plan) : \A a \in Range(plan[i]) : \A b \in Range(plan[i]) :
            b \notin TransDeps(config, a)

\* A task with a direct dependency two stages down and another one stage
\* down was planned (a -> b -> c with a -> c as well).
C2_Witness ==
    /\ Planned
    /\ Len(plan) >= 3
    /\ \E t \in Range(plan[3]) :
          /\ config[t].depends \cap Range(plan[1]) # {}
          /\ config[t].depends \cap Range(plan[2]) # {}

\* A config is acyclic when its tasks can be ranked so that every task
\* ranks above each of its dependencies.
Acyclic(cfg) ==
    \E rank \in [DOMAIN cfg -> 1..Cardinality(DOMAIN cfg)] :
        \A t \in DOMAIN cfg : \A d \in cfg[t].depends \cap DOMAIN cfg :
            rank[d] < rank[t]

\* C7: when every depends entry names a defined task, from_config succeeds
\* exactly when the depends relation has no cycle (a self-dependency is one);
\* a failure is CyclicDependency and its witness path begins and ends with
\* the same task name.
C7_AcyclicityGate ==
    (gphase # "config" /\ ~HasMissing(config)) =>
        /\ graphRes.ok <=> Acyclic(config)
        /\ ~graphRes.ok =>
              /\ graphRes.err.kind = "CyclicDependency"
              /\ Len(graphRes.err.cycle) >= 2
              /\ graphRes.err.cycle[1] \in DOMAIN config
              /\ graphRes.err.cycle[1] = graphRes.err.cycle[Len(graphRes.err.cycle)]

\* from_config rejected a config whose only cycle is a self-dependency, and
\* (another state) one with a cycle through three tasks.
C7_Witness ==
    /\ gphase = "built"
    /\ ~HasMissing(config)
    /\ graphRes.err.kind = "CyclicDependency"
    /\ \/ \E t \in DOMAIN config :
             /\ t \in config[t].depends
             /\ \A u \in DOMAIN config \ {t} : config[u].depends = {}
       \/ Cardinality(Range(graphRes.err.cycle)) = 3

\* C8: execution_order(target) returns exactly the target and its transitive
\* dependencies, each once, every task after all of its dependencies; a
\* target that is no task of the graph gives TaskNotFound.
C8_ExecutionOrder ==
    gphase = "planned" =>
        IF target \in DOMAIN config
        THEN /\ orderRes.ok
             /\ Range(orderRes.tasks) = {target} \cup TransDeps(config, target)
             /\ Len(orderRes.tasks) = Cardinality(Range(orderRes.tasks))
             /\ \A i \in 1..Len(orderRes.tasks) :
                   \A d \in config[orderRes.tasks[i]].depends :
                       \E j \in 1..(i - 1) : orderRes.tasks[j] = d
        ELSE /\ ~orderRes.ok
             /\ orderRes.err.kind = "TaskNotFound"
             /\ orderRes.err.name = target

\* execution_order returned all four tasks for a target that has the other
\* three as transitive dependencies, one of them with two of its own.
C8_Witness ==
    /\ gphase = "planned"
    /\ orderRes.ok
    /\ Len(orderRes.tasks) = 4
    /\ Cardinality(TransDeps(config, target)) = 3
    /\ \E t \in DOMAIN config : Cardinality(TransDeps(config, t)) = 2

-----------------------------------------------------------------------------
(* Executor::execute                                                       *)

\* num_cpus::get(): the host's available parallelism, 4 when it cannot be
\* determined (h = 0).
DefaultParallelism == 4

NumCpusGet(h) == IF h = 0 THEN DefaultParallelism ELSE h

\* let parallelism = if exec_config.parallelism == 0 { num_cpus::get() } ...
EffectiveParallelism(ec, h) ==
    IF ec.parallelism = 0 THEN NumCpusGet(h) ELSE ec.parallelism

\* Mutant: a worker goes on without a permit when none is left.
CanAcquireAlways(p) == TRUE

\* sem.acquire().await completes only when the semaphore has a permit.
CanAcquire(p) == p > 0

\* A worker's states: "none" (not spawned), "spawned" (waiting for a
\* permit), "running" (holds a permit, in execute_single_task), and how
\* it ended: "ok" (ran, success), "cached" (cache hit), "fail" (a TaskResult
\* with success = false), "err" (execute_single_task returned Err: the
\* error of cache.get), "panic" (the worker panicked: a JoinError).
Terminal == {"ok", "cached", "fail", "err", "panic"}

Started(w) == w # "none"

\* Mutant: handle.await returns as soon as the worker holds a permit.
TerminatedOnceRunning(w) == w \notin {"none", "spawned"}

\* Mutant: a handle is ready when the commands of its worker have returned.
TerminatedBeforePut(w) == w \in Terminal \cup {"put"}

Terminated(w) == w \in Terminal

\* The cache is probed when force is off and the executor has a cache.
Probes(ec) == ~ec.force /\ ec.cache

NoReturn == [kind |-> "none", task |-> "", code |-> 0]

\* Mutant: the groups are all spawned before any handle is awaited.
AfterSpawnNoBarrier(p, g) ==
    IF g < Len(p) THEN [pc |-> "spawn", group |-> g + 1, idx |-> 1]
    ELSE [pc |-> "await", group |-> g, idx |-> 1]

\* After the last task of group g is spawned, execute awaits the group's
\* handles, the first one first.
AfterSpawn(p, g) == [pc |-> "await", group |-> g, idx |-> 1]

\* Mutant: execute returns after the handles of the first group.
AfterAwaitFirstGroup(p, g) == [pc |-> "returned", group |-> g, idx |-> 0]

\* After the last handle of group g: the next group, or the end of the loop.
AfterAwait(p, g) ==
    IF g < Len(p) THEN [pc |-> "spawn", group |-> g + 1, idx |-> 1]
    ELSE [pc |-> "returned", group |-> g, idx |-> 0]

\* Mutant: a failure aborts whatever allow_failure says.
AbortsIgnoringAllowFailure(success, allow_failure) == ~success

\* Mutant: no failure aborts execute.
AbortsNever(success, allow_failure) == FALSE

\* if !success && !allow_failure { return Err(TaskFailed) }
Aborts(success, allow_failure) == ~success /\ ~allow_failure

\* YatrError::TaskFailed { task: task_name, code: 1, stderr: None }
TaskFailed(task_name) == [kind |-> "TaskFailed", task |-> task_name, code |-> 1]

\* graph.get_task(&task_name).map(|t| t.config.allow_failure).unwrap_or(false)
AllowFailure(cfg, task_name) ==
    IF task_name \in DOMAIN cfg THEN cfg[task_name].allow_failure ELSE FALSE

\* The configs of the executor specification: every task may depend on the
\* tasks before it in ExecTasks, and may allow failure.
ExecConfigs ==
    LET T == Range(ExecTasks)
        Before(t) == {ExecTasks[i] : i \in 1..(Pos(ExecTasks, t) - 1)}
    IN  {[t \in T |-> [depends |-> D[t], allow_failure |-> A[t]]] :
            D \in {X \in [T -> SUBSET T] : \A t \in T : X[t] \subseteq Before(t)},
            A \in [T -> BOOLEAN]}

InitExec ==
    /\ config \in ExecConfigs
    /\ gphase = "built"
    /\ graphRes \in {FromConfigResult(config, it, it, "") : it \in Perms(DOMAIN config)}
    /\ orderRes = NoOrder
    /\ plan = <<>>
    /\ target = ""
    /\ runs = <<>>
    /\ execCfg \in [parallelism : 0..MaxParallelism, dry_run : BOOLEAN,
                    force : BOOLEAN, cache : BOOLEAN]
    /\ host = 0
    /\ parallelism = 0
    /\ permits = 0
    /\ ex = [pc |-> "idle", group |-> 0, idx |-> 0]
    /\ worker = [t \in DOMAIN config |-> "none"]
    /\ all_results = <<>>
    /\ ret = NoReturn
    /\ CacheUnused
    /\ TaskUnused
    /\ WatchUnused
    /\ CmdUnused

\* execute, up to the first group: the order, the plan, the dry-run return,
\* the semaphore.
\* Mutant: execute goes on to the groups although dry_run is set.
DryRunIgnored(ec) == FALSE
\* if self.exec_config.dry_run
DryRun(ec) == ec.dry_run

ExecuteBegin ==
    /\ ex.pc = "idle"
    /\ \E tn \in DOMAIN config \cup {Undefined} :
         /\ target' = tn
         /\ \E r \in ExecutionOrder(graphRes.graph, tn) :
              /\ orderRes' = r
              /\ plan' = IF r.ok THEN FromTasks(r.tasks, graphRes.graph) ELSE <<>>
              /\ IF ~r.ok
                 THEN /\ ret' = [kind |-> r.err.kind, task |-> r.err.name, code |-> 0]
                      /\ ex' = [pc |-> "returned", group |-> 0, idx |-> 0]
                      /\ UNCHANGED <<host, parallelism, permits>>
                 ELSE IF DryRun(execCfg)
                 THEN /\ ret' = [kind |-> "Ok", task |-> "", code |-> 0]
                      /\ ex' = [pc |-> "returned", group |-> 0, idx |-> 0]
                      /\ UNCHANGED <<host, parallelism, permits>>
                 ELSE /\ \E h \in 0..MaxParallelism :
                           /\ execCfg.parallelism = 0 \/ h = 0
                           /\ host' = h
                           /\ parallelism' = EffectiveParallelism(execCfg, h)
                           /\ permits' = EffectiveParallelism(execCfg, h)
                      /\ ex' = [pc |-> "spawn", group |-> 1, idx |-> 1]
                      /\ ret' = ret
    /\ gphase' = "planned"
    /\ UNCHANGED <<config, graphRes, runs, execCfg, worker, all_results, cvars, tvars, wvars, xvars>>

\* tokio::spawn for the next task of the current group.
SpawnTask ==
    /\ ex.pc = "spawn"
    /\ LET task == plan[ex.group][ex.idx] IN
         /\ worker' = [worker EXCEPT ![task] = "spawned"]
         /\ ex' = IF ex.idx < Len(plan[ex.group])
                  THEN [ex EXCEPT !.idx = @ + 1]
                  ELSE AfterSpawn(plan, ex.group)
    /\ UNCHANGED <<gvars, cvars, tvars, execCfg, host, parallelism, permits, all_results, ret, wvars, xvars>>

\* let _permit = sem.acquire().await.unwrap();
WorkerAcquire(t) ==
    /\ worker[t] = "spawned"
    /\ CanAcquire(permits)
    /\ worker' = [worker EXCEPT ![t] = "running"]
    /\ permits' = permits - 1
    /\ UNCHANGED <<gvars, cvars, tvars, execCfg, host, parallelism, ex, all_results, ret, wvars, xvars>>

\* Mutant: the worker ends and keeps its permit.
WorkerEndHoldsPermit(t, how) ==
    /\ worker[t] = "running"
    /\ worker' = [worker EXCEPT ![t] = how]
    /\ UNCHANGED <<gvars, cvars, tvars, execCfg, host, parallelism, permits, ex, all_results, ret, wvars, xvars>>

\* The worker ends with `how`; its permit is dropped.
WorkerEnd(t, how) ==
    /\ worker[t] = "running"
    /\ worker' = [worker EXCEPT ![t] = how]
    /\ permits' = permits + 1
    /\ UNCHANGED <<gvars, cvars, tvars, execCfg, host, parallelism, ex, all_results, ret, wvars, xvars>>

\* execute_single_task: cache.get returned Some(cached).
WorkerCacheHit(t) == Probes(execCfg) /\ WorkerEnd(t, "cached")

\* execute_single_task: cache.get returned Err, passed on by `?`.
WorkerCacheError(t) == Probes(execCfg) /\ WorkerEnd(t, "err")

\* execute_single_task: the commands or the script returned Ok(output).
WorkerSucceed(t) == WorkerEnd(t, "ok")

\* execute_single_task: the commands or the script returned Err(e), which
\* becomes a TaskResult with success = false.
WorkerFail(t) == WorkerEnd(t, "fail")

\* The worker panicked (parts[0] of a command without tokens).
WorkerPanic(t) == WorkerEnd(t, "panic")

\* handle.await for the next handle of the current group, and what follows
\* it in the loop body.
AwaitHandle ==
    /\ ex.pc = "await"
    /\ LET task == plan[ex.group][ex.idx]
           success == worker[task] \in {"ok", "cached"}
           next == IF ex.idx < Len(plan[ex.group])
                   THEN [ex EXCEPT !.idx = @ + 1]
                   ELSE AfterAwait(plan, ex.group)
           stop == [pc |-> "returned", group |-> ex.group, idx |-> ex.idx]
       IN
         /\ Terminated(worker[task])
         /\ IF worker[task] = "panic"
            THEN /\ ret' = [kind |-> "Io", task |-> "", code |-> 0]
                 /\ ex' = stop
                 /\ UNCHANGED all_results
            ELSE IF worker[task] = "err"
            THEN /\ ret' = [kind |-> "Cache", task |-> "", code |-> 0]
                 /\ ex' = stop
                 /\ UNCHANGED all_results
            ELSE /\ all_results' = Append(all_results,
                        [name |-> task, success |-> success,
                         cached |-> worker[task] = "cached"])
                 /\ IF Aborts(success, AllowFailure(config, task))
                    THEN /\ ret' = TaskFailed(task)
                         /\ ex' = stop
                    ELSE /\ ex' = next
                         /\ ret' = IF next.pc = "returned"
                                   THEN [kind |-> "Ok", task |-> "", code |-> 0]
                                   ELSE ret
    /\ UNCHANGED <<gvars, cvars, tvars, execCfg, host, parallelism, permits, worker, wvars, xvars>>

NextExec ==
    \/ ExecuteBegin
    \/ SpawnTask
    \/ AwaitHandle
    \/ \E t \in DOMAIN config : WorkerAcquire(t)
    \/ \E t \in DOMAIN config : WorkerCacheHit(t)
    \/ \E t \in DOMAIN config : WorkerCacheError(t)
    \/ \E t \in DOMAIN config : WorkerSucceed(t)
    \/ \E t \in DOMAIN config : WorkerFail(t)
    \/ \E t \in DOMAIN config : WorkerPanic(t)

SpecExec == InitExec /\ [][NextExec]_vars

-----------------------------------------------------------------------------
(* Properties of Executor::execute                                         *)

PlanTasks == UNION {Range(plan[i]) : i \in 1..Len(plan)}

\* C3: a task of a stage is started only when every task of every earlier
\* stage has terminated; so a started task has its whole transitive
\* dependency closure terminated.
C3_StageBarrier ==
    /\ \A i \in 1..Len(plan) : \A t \in Range(plan[i]) :
         Started(worker[t]) =>
             \A j \in 1..(i - 1) : \A u \in Range(plan[j]) : Terminated(worker[u])
    /\ \A t \in DOMAIN worker :
         Started(worker[t]) =>
             \A u \in TransDeps(config, t) : Terminated(worker[u])

\* The last task of a chain of three was started after both of its
\* transitive dependencies ended.
C3_Witness ==
    /\ Len(plan) = 3
    /\ Started(worker[plan[3][1]])
    /\ Cardinality(TransDeps(config, plan[3][1])) = 2

\* A task whose TaskResult has success = false and whose allow_failure is
\* false.
FailedHard(t) == worker[t] = "fail" /\ ~config[t].allow_failure

\* C4 (as claimed): once some task failed with allow_failure = false and
\* execute has returned, it returned TaskFailed with code 1; and no task of
\* a later stage, and no task that depends on the failed one, was started.
C4_FailureContainment ==
    \A i \in 1..Len(plan) : \A a \in Range(plan[i]) :
        FailedHard(a) =>
            /\ ex.pc = "returned" => (ret.kind = "TaskFailed" /\ ret.code = 1)
            /\ \A j \in (i + 1)..Len(plan) : \A u \in Range(plan[j]) :
                  ~Started(worker[u])
            /\ \A b \in DOMAIN worker :
                  a \in TransDeps(config, b) => ~Started(worker[b])

\* C5: a failure of a task with allow_failure = true never aborts execute
\* (TaskFailed never names such a task); and when execute has returned, some
\* task A of the plan failed with allow_failure = true and every other task
\* that ended succeeded, then execute returned Ok and the results hold A's
\* with success = false and one for every task of the plan that depends on A.
C5_AllowFailure ==
    /\ ret.kind = "TaskFailed" => ~AllowFailure(config, ret.task)
    /\ \A a \in DOMAIN worker :
         ( /\ ex.pc = "returned"
           /\ worker[a] = "fail"
           /\ config[a].allow_failure
           /\ \A u \in DOMAIN worker \ {a} : worker[u] \in {"none", "ok", "cached"} )
         => /\ ret.kind = "Ok"
            /\ \E k \in 1..Len(all_results) :
                  all_results[k].name = a /\ ~all_results[k].success
            /\ \A b \in PlanTasks :
                  a \in TransDeps(config, b) =>
                      /\ worker[b] \in {"ok", "cached"}
                      /\ \E k \in 1..Len(all_results) :
                            all_results[k].name = b /\ all_results[k].success

\* execute returned Ok although a task with allow_failure failed, and a task
\* depending on it ran after the failure and succeeded.
C5_Witness ==
    /\ ex.pc = "returned"
    /\ ret.kind = "Ok"
    /\ \E a \in DOMAIN worker, b \in DOMAIN worker :
          /\ worker[a] = "fail"
          /\ config[a].allow_failure
          /\ a \in config[b].depends
          /\ worker[b] = "ok"

\* C6: the workers that hold a permit never number more than the effective
\* parallelism: the configured value when it is not zero, else the host's
\* available parallelism, else 4; and that is the semaphore's capacity.
C6_BoundedParallelism ==
    LET running == {t \in DOMAIN worker : worker[t] = "running"}
        effective == IF execCfg.parallelism # 0 THEN execCfg.parallelism
                     ELSE IF host # 0 THEN host ELSE 4
    IN  /\ Cardinality(running) <= effective
        /\ (ex.pc \in {"spawn", "await"}) =>
              /\ parallelism = effective
              /\ Cardinality(running) + permits = parallelism

\* With one permit, one worker of a two-task stage runs while the other one
\* waits for the permit.
C6_Witness ==
    /\ parallelism = 1
    /\ \E t \in DOMAIN worker, u \in DOMAIN worker :
          worker[t] = "running" /\ worker[u] = "spawned"

-----------------------------------------------------------------------------
(* The cache: Cache (src/src/cache.rs)                                     *)

\* Option<T>: None is the empty sequence, Some(v) the sequence of v alone.
None == <<>>
Some(v) == <<v>>

\* Result<Option<String>>: Ok(None), Ok(Some(output)), or Err(Cache).
Ok(v) == [ok |-> TRUE, value |-> v]
ErrCache == [ok |-> FALSE, value |-> <<"Cache">>]

\* The components of a cache input.  A TaskConfig is here its run, script,
\* env and sources; an env is a function from its keys to their values.
CacheNames == {"a", "ab"}
CacheRuns == {<<>>, <<"b">>, <<"bc">>, <<"b", "c">>}
CacheScripts == {None, Some("b")}
\* The env keys, listed in the byte order that sort_by_key puts them in.
EnvKeys == <<"b", "c">>
CacheEnvs ==
    {[k \in {} |-> ""], [k \in {"b"} |-> ""], [k \in {"b"} |-> "c"],
     [k \in {"b", "c"} |-> ""]}
CacheSources == {<<>>, <<"*">>}
Outputs == {"o1", "o2"}
\* The one file under the working directory, and the contents it can have.
SourcePath == "./f"
Contents == {"x", "y"}

RECURSIVE SumLen(_)
SumLen(s) == IF s = <<>> THEN 0 ELSE Len(Head(s)) + SumLen(Tail(s))

\* config.env.iter().collect(): the entries of env, in the order `iter` in
\* which the HashMap hands out its keys.
EnvIter(env, iter) == [i \in 1..Len(iter) |-> <<iter[i], env[iter[i]]>>]

\* The byte order of two env keys.
KeyLess(k1, k2) == Pos(EnvKeys, k1) < Pos(EnvKeys, k2)

\* Mutant: the env entries are fed in the order of the iteration.
SortByKeyNot(env_pairs) == env_pairs

\* env_pairs.sort_by_key(|(k, _)| *k): a stable sort by the key.
RECURSIVE SortByKey(_)
SortByKey(env_pairs) ==
    IF env_pairs = <<>> THEN <<>>
    ELSE LET x == Head(env_pairs)
             rest == SortByKey(Tail(env_pairs))
             before == SelectSeq(rest, LAMBDA e : KeyLess(e[1], x[1]))
             after == SelectSeq(rest, LAMBDA e : ~KeyLess(e[1], x[1]))
         IN  before \o <<x>> \o after

\* The bytes of the name, the commands, the script, the env and the sources
\* patterns of an input.
InputLen(task_name, cfg) ==
    LET pairs == EnvIter(cfg.env, SelectSeq(EnvKeys, LAMBDA k : k \in DOMAIN cfg.env))
    IN  Len(task_name) + SumLen(cfg.run) + SumLen(cfg.script)
        + SumLen([i \in 1..Len(pairs) |-> pairs[i][1]])
        + SumLen([i \in 1..Len(pairs) |-> pairs[i][2]])
        + SumLen(cfg.sources)

\* Config::validate, for the fields that the cache reads: a task has not
\* both run and script (one with neither has depends, which no key reads).
Validate(cfg) == ~(cfg.run # <<>> /\ cfg.script # None)

CacheInputs ==
    {i \in [task_name : CacheNames,
            config : [run : CacheRuns, script : CacheScripts,
                      env : CacheEnvs, sources : CacheSources]] :
        Validate(i.config) /\ InputLen(i.task_name, i.config) <= MaxInputLen}

\* The inputs in some order: the cache is called with a pair of them, and
\* which one of a pair is inA makes no difference.
RECURSIVE SetToSeq(_)
SetToSeq(S) ==
    IF S = {} THEN <<>>
    ELSE LET x == CHOOSE y \in S : TRUE IN <<x>> \o SetToSeq(S \ {x})
CacheInputSeq == SetToSeq(CacheInputs)

\* blake3::Hasher: update appends to the bytes fed so far, and the digest.
\* The hash is taken as injective, so that a digest is the bytes that were
\* fed, between two marks that no input holds; to_hex()[..16] is taken as
\* injective too.
HasherNew == ""
Update(hasher, bytes) == hasher \o bytes
RECURSIVE UpdateAll(_, _)
UpdateAll(hasher, s) ==
    IF s = <<>> THEN hasher ELSE UpdateAll(Update(hasher, Head(s)), Tail(s))
Finalize(hasher) == "<" \o hasher \o ">"

\* globset's match of a path by a pattern.
IsMatch(pattern, path) == pattern = "*"

\* Cache::hash_sources: the digest of the path and the content of each
\* matched file; `file` is the content of SourcePath.
HashSources(patterns, file) ==
    LET files == IF \E i \in 1..Len(patterns) : IsMatch(patterns[i], SourcePath)
                 THEN <<SourcePath>> ELSE <<>>
        Fed[i \in 0..Len(files)] ==
            IF i = 0 THEN HasherNew
            ELSE Update(Update(Fed[i - 1], files[i]), file)
    IN  Finalize(Fed[Len(files)])

\* Cache::compute_key; `iter` is the order in which config.env is iterated.
ComputeKey(task_name, cfg, file, iter) ==
    LET h1 == Update(HasherNew, task_name)
        h2 == UpdateAll(h1, cfg.run)
        h3 == IF cfg.script # None THEN Update(h2, cfg.script[1]) ELSE h2
        env_pairs == SortByKey(EnvIter(cfg.env, iter))
        h4 == UpdateAll(h3, [i \in 1..(2 * Len(env_pairs)) |->
                                env_pairs[(i + 1) \div 2][2 - (i % 2)]])
        h5 == IF cfg.sources # <<>>
              THEN Update(h4, HashSources(cfg.sources, file))
              ELSE h4
    IN  Finalize(h5)

CachePath(key) == key \o ".cache"
MetaPath(key) == key \o ".meta.json"

\* The CacheEntry that put builds (created_at is left out).
CacheEntry(key, task_name, output) ==
    [key |-> key, task |-> task_name, duration_ms |-> 0,
     output_size |-> Len(output)]

\* serde_json::to_string_pretty and from_str of a CacheEntry: the content of
\* a sidecar is either the JSON of an entry or something that parses to none.
ToJson(entry) == [json |-> TRUE, entry |-> entry]
FromJson(content) ==
    IF content.json THEN [ok |-> TRUE, entry |-> content.entry]
    ELSE [ok |-> FALSE, entry |-> CacheEntry("", "", "")]

\* A directory with no file.
EmptyDir == [p \in {} |-> ""]
\* Mutant: the file is left where it is.
RemoveNothing(dir, path) == dir
\* if path.exists() { tokio::fs::remove_file(&path) }
Remove(dir, path) == [p \in (DOMAIN dir) \ {path} |-> dir[p]]
Write(dir, path, content) == (path :> content) @@ dir

\* Mutants of get's check that the sidecar is of the requested task: the
\* check lets every sidecar pass; the check compares the key with the name.
EntryMatchesAny(entry, task_name) == TRUE
EntryMatchesKey(entry, task_name) == entry.key = task_name
EntryMatches(entry, task_name) == entry.task = task_name

\* Cache::get.
Get(en, bl, me, file, task_name, cfg, iter) ==
    IF ~en THEN Ok(None)
    ELSE LET key == ComputeKey(task_name, cfg, file, iter)
             cache_path == CachePath(key)
             meta_path == MetaPath(key)
         IN  IF cache_path \notin DOMAIN bl THEN Ok(None)
             ELSE IF meta_path \notin DOMAIN me THEN Ok(None)
             ELSE LET parsed == FromJson(me[meta_path])
                  IN  IF ~parsed.ok THEN ErrCache
                      ELSE IF ~EntryMatches(parsed.entry, task_name) THEN Ok(None)
                      ELSE Ok(Some(bl[cache_path]))

\* The record of a get: its input, the content that the source file had,
\* and its result; and the record that stands for no get.
GetRecord(i, res) ==
    [op |-> "get", task_name |-> i.task_name, config |-> i.config,
     file |-> srcFile, res |-> res]
NoGet ==
    [op |-> "none", task_name |-> "",
     config |-> [run |-> <<>>, script |-> None, env |-> <<>>, sources |-> <<>>],
     file |-> "", res |-> Ok(None)]

\* The record of an invalidate: its input, the content that the source file
\* had, what cache_path.exists() and meta_path.exists() gave, and its result.
InvalidateRecord(i, key) ==
    [op |-> "invalidate", task_name |-> i.task_name, config |-> i.config,
     file |-> srcFile, res |-> Ok(None),
     had_blob |-> CachePath(key) \in DOMAIN blobs,
     had_meta |-> MetaPath(key) \in DOMAIN metas]

\* The record of a completed put: its input, the content that the source
\* file had, the key, and the output.
PutRecord(i, key, output) ==
    [task_name |-> i.task_name, config |-> i.config, file |-> srcFile,
     key |-> key, output |-> output]

InitCache ==
    /\ config = <<>>
    /\ gphase = "config"
    /\ graphRes = NoGraph
    /\ orderRes = NoOrder
    /\ plan = <<>>
    /\ target = ""
    /\ runs = <<>>
    /\ ExecUnused
    /\ enabled \in BOOLEAN
    /\ blobs = EmptyDir
    /\ metas = EmptyDir
    /\ srcFile \in Contents
    /\ \E a \in 1..Len(CacheInputSeq), b \in 1..Len(CacheInputSeq) :
          a <= b /\ inA = CacheInputSeq[a] /\ inB = CacheInputSeq[b]
    /\ last = NoGet
    /\ live = {}
    /\ nops = 0
    /\ TaskUnused
    /\ WatchUnused
    /\ CmdUnused

\* cache.get(task_name, config).
CacheGet ==
    /\ nops < MaxCacheOps
    /\ \E i \in {inA, inB} : \E iter \in Perms(DOMAIN i.config.env) :
          last' = GetRecord(i, Get(enabled, blobs, metas, srcFile,
                                   i.task_name, i.config, iter))
    /\ nops' = nops + 1
    /\ UNCHANGED <<gvars, evars, tvars, enabled, blobs, metas, srcFile, inA, inB, live, wvars, xvars>>

\* cache.put(task_name, config, output).
CachePut ==
    /\ nops < MaxCacheOps
    /\ \E i \in {inA, inB}, output \in Outputs :
        \E iter \in Perms(DOMAIN i.config.env) :
          LET key == ComputeKey(i.task_name, i.config, srcFile, iter)
          IN  /\ IF enabled
                 THEN /\ blobs' = Write(blobs, CachePath(key), output)
                      /\ metas' = Write(metas, MetaPath(key),
                                        ToJson(CacheEntry(key, i.task_name, output)))
                      /\ live' = {r \in live : r.key # key}
                                     \cup {PutRecord(i, key, output)}
                 ELSE UNCHANGED <<blobs, metas, live>>
              /\ last' = NoGet
    /\ nops' = nops + 1
    /\ UNCHANGED <<gvars, evars, tvars, enabled, srcFile, inA, inB, wvars, xvars>>

\* cache.invalidate(task_name, config).
CacheInvalidate ==
    /\ nops < MaxCacheOps
    /\ \E i \in {inA, inB} : \E iter \in Perms(DOMAIN i.config.env) :
          LET key == ComputeKey(i.task_name, i.config, srcFile, iter)
          IN  /\ IF enabled
                 THEN /\ blobs' = Remove(blobs, CachePath(key))
                      /\ metas' = Remove(metas, MetaPath(key))
                      /\ live' = {r \in live : r.key # key}
                 ELSE UNCHANGED <<blobs, metas, live>>
              /\ last' = InvalidateRecord(i, key)
    /\ nops' = nops + 1
    /\ UNCHANGED <<gvars, evars, tvars, enabled, srcFile, inA, inB, wvars, xvars>>

\* cache.clear().
CacheClear ==
    /\ nops < MaxCacheOps
    /\ IF enabled
       THEN /\ blobs' = EmptyDir
            /\ metas' = EmptyDir
            /\ live' = {}
       ELSE UNCHANGED <<blobs, metas, live>>
    /\ last' = NoGet
    /\ nops' = nops + 1
    /\ UNCHANGED <<gvars, evars, tvars, enabled, srcFile, inA, inB, wvars, xvars>>

\* The environment rewrites the source file with another content.
ModifySource ==
    /\ \E c \in Contents \ {srcFile} : srcFile' = c
    /\ UNCHANGED <<gvars, evars, tvars, enabled, blobs, metas, inA, inB, last, live, nops, wvars, xvars>>

NextCache ==
    \/ CacheGet
    \/ CachePut
    \/ CacheInvalidate
    \/ CacheClear
    \/ ModifySource

SpecCache == InitCache /\ [][NextCache]_vars

-----------------------------------------------------------------------------
(* Properties of the cache                                                 *)

\* The files that the sources of a config match, with their contents, when
\* the source file has the content `file`.
MatchedFiles(cfg, file) ==
    IF \E i \in 1..Len(cfg.sources) : IsMatch(cfg.sources[i], SourcePath)
    THEN {<<SourcePath, file>>} ELSE {}

\* The components that take part in the key derivation.
KeyComponents(r) ==
    <<r.task_name, r.config.run, r.config.script, r.config.env,
      MatchedFiles(r.config, r.file)>>

\* C9: on an enabled cache, a get of the input of a completed put returns
\* Some of the output that was put, when no later put, invalidate or clear
\* touched the entry and the matched source files are as they were.
C9_RoundTrip ==
    (enabled /\ last.op = "get") =>
        \A r \in live :
            (/\ r.task_name = last.task_name
             /\ r.config = last.config
             /\ MatchedFiles(r.config, r.file) = MatchedFiles(last.config, last.file))
            => last.res = Ok(Some(r.output))

\* Two entries were put, and a get of the input of one of them, a task with
\* sources, returned the output that was put for it.
C9_Witness ==
    /\ enabled
    /\ last.op = "get"
    /\ last.config.sources # <<>>
    /\ Cardinality(live) = 2
    /\ \E r \in live :
          /\ r.task_name = last.task_name
          /\ r.config = last.config
          /\ r.file = last.file
          /\ last.res = Ok(Some(r.output))

\* C10 (as claimed): a get of an input that differs, in a component of the
\* key derivation, from the input of every put whose entry is still there
\* returns a miss.
C10_ChangedInputMisses ==
    (enabled /\ last.op = "get") =>
        ((\A r \in live : KeyComponents(r) # KeyComponents(last))
            => last.res = Ok(None))

\* The sidecar stored under the key of the get performed last.
SidecarOf(g) ==
    LET key == ComputeKey(g.task_name, g.config, g.file,
                          CHOOSE iter \in Perms(DOMAIN g.config.env) : TRUE)
    IN  [present |-> MetaPath(key) \in DOMAIN metas,
         blob |-> CachePath(key) \in DOMAIN blobs,
         parsed |-> IF MetaPath(key) \in DOMAIN metas
                    THEN FromJson(metas[MetaPath(key)])
                    ELSE FromJson(ToJson(CacheEntry("", "", "")))]

\* C12: a get whose key holds a sidecar that records another task name
\* returns a miss, also when the blob of that key exists.
C12_CollisionSafety ==
    (enabled /\ last.op = "get") =>
        LET sc == SidecarOf(last)
        IN  (sc.present /\ sc.parsed.ok /\ sc.parsed.entry.task # last.task_name)
                => last.res = Ok(None)

\* A get found the blob and a sidecar of another task under its key, and
\* returned a miss.
C12_Witness ==
    /\ enabled
    /\ last.op = "get"
    /\ SidecarOf(last).present
    /\ SidecarOf(last).blob
    /\ SidecarOf(last).parsed.entry.task # last.task_name
    /\ last.res = Ok(None)

-----------------------------------------------------------------------------
(* Cache::compute_key as a function of its inputs                          *)

\* The calls of compute_key: a task name, a TaskConfig with two of the fields
\* that compute_key does not read, and the order in which env is iterated.
KeyCalls ==
    UNION {{[task_name |-> i.task_name,
             config |-> [run |-> i.config.run, script |-> i.config.script,
                         env |-> i.config.env, sources |-> i.config.sources,
                         cwd |-> cwd, no_cache |-> nc],
             iter |-> iter] :
                cwd \in {None, Some("d")}, nc \in BOOLEAN,
                iter \in Perms(DOMAIN i.config.env)} :
           i \in CacheInputs}

NoKeys == [op |-> "key", keyA |-> None, fileA |-> "", keyB |-> None, fileB |-> ""]

InitKey ==
    /\ config = <<>>
    /\ gphase = "config"
    /\ graphRes = NoGraph
    /\ orderRes = NoOrder
    /\ plan = <<>>
    /\ target = ""
    /\ runs = <<>>
    /\ ExecUnused
    /\ enabled = TRUE
    /\ blobs = EmptyDir
    /\ metas = EmptyDir
    /\ srcFile \in Contents
    /\ inA \in KeyCalls
    /\ inB \in KeyCalls
    /\ last = NoKeys
    /\ live = {}
    /\ nops = 0
    /\ TaskUnused
    /\ WatchUnused
    /\ CmdUnused

\* compute_key(inA.task_name, inA.config).
KeyOfA ==
    /\ last.keyA = None
    /\ last' = [last EXCEPT
                  !.keyA = Some(ComputeKey(inA.task_name, inA.config, srcFile, inA.iter)),
                  !.fileA = srcFile]
    /\ UNCHANGED <<gvars, evars, tvars, enabled, blobs, metas, srcFile, inA, inB, live, nops, wvars, xvars>>

\* compute_key(inB.task_name, inB.config).
KeyOfB ==
    /\ last.keyB = None
    /\ last' = [last EXCEPT
                  !.keyB = Some(ComputeKey(inB.task_name, inB.config, srcFile, inB.iter)),
                  !.fileB = srcFile]
    /\ UNCHANGED <<gvars, evars, tvars, enabled, blobs, metas, srcFile, inA, inB, live, nops, wvars, xvars>>

NextKey == KeyOfA \/ KeyOfB \/ ModifySource

SpecKey == InitKey /\ [][NextKey]_vars

\* The source hash that compute_key feeds for a config, if it feeds one.
SourceHash(cfg, file) ==
    IF cfg.sources # <<>> THEN Some(HashSources(cfg.sources, file)) ELSE None

\* C11: two calls of compute_key that agree on the task name, the commands,
\* the script, the env as a mapping and the source hash return the same key,
\* whatever the iteration order of env and the other fields of the config.
C11_KeyDeterminism ==
    (/\ last.keyA # None
     /\ last.keyB # None
     /\ inA.task_name = inB.task_name
     /\ inA.config.run = inB.config.run
     /\ inA.config.script = inB.config.script
     /\ inA.config.env = inB.config.env
     /\ SourceHash(inA.config, last.fileA) = SourceHash(inB.config, last.fileB))
    => last.keyA = last.keyB

\* Two calls with an env of two entries iterated in opposite orders, with
\* different cwd and no_cache, returned the same key.
C11_Witness ==
    /\ last.keyA # None
    /\ last.keyA = last.keyB
    /\ inA.config.env = inB.config.env
    /\ DOMAIN inA.config.env = Range(EnvKeys)
    /\ inA.iter # inB.iter
    /\ inA.config.cwd # inB.config.cwd
    /\ inA.config.no_cache # inB.config.no_cache

-----------------------------------------------------------------------------
(* Executor::execute_single_task, step by step, with the cache             *)

\* The task names of a config of this specification: "a" and "b" depend on
\* nothing, and "c" may depend on each of them.
RunTasks == <<"a", "b", "c">>

\* The state of a task's cache entry before execute: no files, the files of
\* an earlier put, or a blob with a sidecar that is no JSON of a CacheEntry.
EntryKinds == {"none", "valid", "malformed"}
StoredOutput == "o1"
MalformedJson == [json |-> FALSE, entry |-> CacheEntry("", "", "")]

\* The TaskConfig of a task: depends, allow_failure, no_cache, timeout, and
\* the fields that the cache key reads.
RunConfigs(timeouts) ==
    LET T == Range(RunTasks)
    IN  {[t \in T |->
            [depends |-> IF t = "c" THEN D ELSE {},
             allow_failure |-> t \in A, no_cache |-> t \in N, timeout |-> TO[t],
             run |-> <<"c">>, script |-> None, env |-> [k \in {} |-> ""],
             sources |-> <<>>]] :
            D \in SUBSET {"a", "b"}, A \in SUBSET {"a", "b"}, N \in SUBSET {"a"},
            TO \in [T -> timeouts]}

\* The key of a task's cache entry.
TaskKey(cfg, t) == ComputeKey(t, cfg[t], "", <<>>)

\* The cache directory that holds an entry of kind e[t] for every task t.
InitialBlobs(cfg, e) ==
    LET with == {t \in DOMAIN cfg : e[t] # "none"}
    IN  [p \in {CachePath(TaskKey(cfg, t)) : t \in with} |-> StoredOutput]
InitialMetas(cfg, e) ==
    LET with == {t \in DOMAIN cfg : e[t] # "none"}
        TaskOf(p) == CHOOSE t \in with : MetaPath(TaskKey(cfg, t)) = p
    IN  [p \in {MetaPath(TaskKey(cfg, t)) : t \in with} |->
            IF e[TaskOf(p)] = "valid"
            THEN ToJson(CacheEntry(TaskKey(cfg, TaskOf(p)), TaskOf(p), StoredOutput))
            ELSE MalformedJson]

\* TaskResult, without its duration; and the value for no result yet.
NoResult ==
    [name |-> "", success |-> FALSE, cached |-> FALSE, output |-> None,
     error |-> None]
\* Mutant: the result of a cache hit is not marked as cached.
CachedResultUnmarked(name, cached) ==
    [name |-> name, success |-> TRUE, cached |-> FALSE, output |-> Some(cached),
     error |-> None]
CachedResult(name, cached) ==
    [name |-> name, success |-> TRUE, cached |-> TRUE, output |-> Some(cached),
     error |-> None]
OkResult(name, output) ==
    [name |-> name, success |-> TRUE, cached |-> FALSE, output |-> Some(output),
     error |-> None]
FailedResult(name) ==
    [name |-> name, success |-> FALSE, cached |-> FALSE, output |-> None,
     error |-> Some("e")]

\* The history of the workers: per task the outcome of the cache probe
\* ("none" when cache.get was not called) and what it returned, the output
\* of the commands; the tasks whose commands were started, whose commands
\* returned Ok, whose output was put; and the tasks in the order in which
\* their workers completed.
NoHistory(T) ==
    [probe |-> [t \in T |-> "none"], got |-> [t \in T |-> None],
     stdout |-> [t \in T |-> None], ran |-> {}, cmds_ok |-> {}, puts |-> {},
     put_failed |-> {}, completed |-> <<>>]

\* Mutant: the probe is made whatever force says.
ProbesForced(ec, tc) == ec.cache /\ ~tc.no_cache
\* if !exec_config.force { if let Some(cache) = cache { if !task.config.no_cache
ProbesTask(ec, tc) == Probes(ec) /\ ~tc.no_cache

\* Mutant: the output is put whatever no_cache says.
StoresAlways(ec, tc) == ec.cache

\* How a Cache::put ends: Ok, an error before the blob is written, or an
\* error at the write of the sidecar, after the blob was written.
PutOutcomes == {"ok", "no_write", "blob_only"}

\* if let Some(cache) = cache { if !task.config.no_cache { cache.put
Stores(ec, tc) == ec.cache /\ ~tc.no_cache

\* Executor::new with a config, an ExecutorConfig whose dry_run is one of
\* `dry`, and a cache directory left by earlier runs.
InitExecutor(timeouts, dry) ==
    /\ config \in RunConfigs(timeouts)
    /\ gphase = "built"
    /\ graphRes \in {FromConfigResult(config, it, it, "") : it \in Perms(DOMAIN config)}
    /\ orderRes = NoOrder
    /\ plan = <<>>
    /\ target = ""
    /\ runs = <<>>
    /\ execCfg \in [parallelism : {1, 2}, dry_run : dry,
                    force : BOOLEAN, cache : BOOLEAN]
    /\ host = 0
    /\ parallelism = 0
    /\ permits = 0
    /\ ex = [pc |-> "idle", group |-> 0, idx |-> 0]
    /\ worker = [t \in DOMAIN config |-> "none"]
    /\ all_results = <<>>
    /\ ret = NoReturn
    /\ enabled = execCfg.cache
    /\ \E e \in [DOMAIN config -> EntryKinds] :
          /\ e["c"] = "none"
          /\ ~execCfg.cache => \A t \in DOMAIN config : e[t] = "none"
          /\ blobs = InitialBlobs(config, e)
          /\ metas = InitialMetas(config, e)
    /\ srcFile = ""
    /\ inA = <<>>
    /\ inB = <<>>
    /\ last = <<>>
    /\ live = {}
    /\ nops = 0
    /\ results = [t \in DOMAIN config |-> NoResult]
    /\ hist = NoHistory(DOMAIN config)
    /\ WatchUnused
    /\ CmdUnused

\* The executor of a run that is not a dry run.
InitRun(timeouts) == InitExecutor(timeouts, {FALSE})

InitTask == InitRun({None})

\* The worker of t completes: its permit is dropped.
Complete(t, how) ==
    /\ worker' = [worker EXCEPT ![t] = how]
    /\ permits' = permits + 1

\* execute_single_task, up to the commands: the cache probe.
TaskProbe(t) ==
    /\ worker[t] = "running"
    /\ IF ProbesTask(execCfg, config[t])
       THEN LET r == Get(enabled, blobs, metas, srcFile, t, config[t], <<>>)
            IN  IF ~r.ok
                THEN /\ Complete(t, "err")
                     /\ hist' = [hist EXCEPT !.probe[t] = "err",
                                             !.completed = Append(@, t)]
                     /\ UNCHANGED results
                ELSE IF r.value # None
                THEN /\ Complete(t, "cached")
                     /\ results' = [results EXCEPT ![t] = CachedResult(t, r.value[1])]
                     /\ hist' = [hist EXCEPT !.probe[t] = "hit",
                                             !.got[t] = r.value,
                                             !.completed = Append(@, t)]
                ELSE /\ worker' = [worker EXCEPT ![t] = "exec"]
                     /\ hist' = [hist EXCEPT !.probe[t] = "miss",
                                             !.ran = @ \cup {t}]
                     /\ UNCHANGED <<permits, results>>
       ELSE /\ worker' = [worker EXCEPT ![t] = "exec"]
            /\ hist' = [hist EXCEPT !.ran = @ \cup {t}]
            /\ UNCHANGED <<permits, results>>
    /\ UNCHANGED <<gvars, cvars, execCfg, host, parallelism, ex, all_results, ret, wvars, xvars>>

\* execute_single_task: the commands or the script.  They return Ok(output),
\* return Err(e), panic (parts[0] of a command without tokens), or never
\* terminate; no timeout is applied.
TaskCommands(t) ==
    /\ worker[t] = "exec"
    /\ \/ \E output \in Outputs :
            /\ worker' = [worker EXCEPT ![t] = "put"]
            /\ hist' = [hist EXCEPT !.stdout[t] = Some(output),
                                    !.cmds_ok = @ \cup {t}]
            /\ UNCHANGED <<permits, results>>
       \/ /\ Complete(t, "fail")
          /\ results' = [results EXCEPT ![t] = FailedResult(t)]
          /\ hist' = [hist EXCEPT !.completed = Append(@, t)]
       \/ /\ Complete(t, "panic")
          /\ hist' = [hist EXCEPT !.completed = Append(@, t)]
          /\ UNCHANGED results
       \/ /\ worker' = [worker EXCEPT ![t] = "hung"]
          /\ UNCHANGED <<permits, results, hist>>
    /\ UNCHANGED <<gvars, cvars, execCfg, host, parallelism, ex, all_results, ret, wvars, xvars>>

\* execute_single_task, after the commands returned Ok(output): the put,
\* whose result is dropped, and the TaskResult.
TaskPut(t) ==
    /\ worker[t] = "put"
    /\ LET output == hist.stdout[t][1]
           key == TaskKey(config, t)
       IN  /\ IF Stores(execCfg, config[t])
              THEN \E how \in PutOutcomes :
                   /\ blobs' = IF enabled /\ how # "no_write"
                               THEN Write(blobs, CachePath(key), output)
                               ELSE blobs
                   /\ metas' = IF enabled /\ how = "ok"
                               THEN Write(metas, MetaPath(key),
                                          ToJson(CacheEntry(key, t, output)))
                               ELSE metas
                   /\ hist' = [hist EXCEPT
                                 !.puts = @ \cup {t},
                                 !.put_failed = IF how = "ok" THEN @ ELSE @ \cup {t},
                                 !.completed = Append(@, t)]
              ELSE /\ UNCHANGED <<blobs, metas>>
                   /\ hist' = [hist EXCEPT !.completed = Append(@, t)]
           /\ results' = [results EXCEPT ![t] = OkResult(t, output)]
    /\ Complete(t, "ok")
    /\ UNCHANGED <<gvars, execCfg, host, parallelism, ex, all_results, ret,
                   enabled, srcFile, inA, inB, last, live, nops, wvars, xvars>>

NextTask ==
    \/ ExecuteBegin
    \/ SpawnTask
    \/ AwaitHandle
    \/ \E t \in DOMAIN config : WorkerAcquire(t)
    \/ \E t \in DOMAIN config : TaskProbe(t)
    \/ \E t \in DOMAIN config : TaskCommands(t)
    \/ \E t \in DOMAIN config : TaskPut(t)

SpecTask == InitTask /\ [][NextTask]_vars

\* The specification of the timeouts: every task has a timeout configured;
\* every step of execute and of the workers that can be taken is taken.
InitTimeout == InitRun({Some(1)}) /\ ~execCfg.cache

SpecTimeout ==
    /\ InitTimeout
    /\ [][NextTask]_vars
    /\ WF_vars(ExecuteBegin)
    /\ WF_vars(SpawnTask)
    /\ WF_vars(AwaitHandle)
    /\ \A t \in Range(RunTasks) :
          /\ WF_vars(WorkerAcquire(t))
          /\ WF_vars(TaskProbe(t))
          /\ WF_vars(TaskCommands(t))
          /\ WF_vars(TaskPut(t))

-----------------------------------------------------------------------------
(* Properties of execute_single_task                                       *)

\* The cache entry of task t holds a blob and a sidecar that parses.
ValidEntry(t) ==
    /\ CachePath(TaskKey(config, t)) \in DOMAIN blobs
    /\ MetaPath(TaskKey(config, t)) \in DOMAIN metas
    /\ FromJson(metas[MetaPath(TaskKey(config, t))]).ok

\* The sidecar of task t is there and does not parse.
MalformedEntry(t) ==
    /\ CachePath(TaskKey(config, t)) \in DOMAIN blobs
    /\ MetaPath(TaskKey(config, t)) \in DOMAIN metas
    /\ ~FromJson(metas[MetaPath(TaskKey(config, t))]).ok

\* The worker of t is past the cache probe.
PastProbe(t) == worker[t] \notin {"none", "spawned", "running"}

\* C13: with force off, a cache and no_cache off, the worker calls
\* cache.get; when it hits, the commands are not run and the TaskResult is
\* a success, marked cached, with the output that the cache holds.
C13_CacheHit ==
    \A t \in DOMAIN worker :
        /\ (~execCfg.force /\ execCfg.cache /\ ~config[t].no_cache /\ PastProbe(t))
              => hist.probe[t] # "none"
        /\ hist.probe[t] = "hit" =>
              /\ t \notin hist.ran
              /\ worker[t] = "cached"
              /\ results[t] =
                    [name |-> t, success |-> TRUE, cached |-> TRUE,
                     output |-> Some(blobs[CachePath(TaskKey(config, t))]),
                     error |-> None]
              /\ \A i \in 1..Len(all_results) :
                    all_results[i].name = t =>
                        all_results[i].success /\ all_results[i].cached

\* execute returned Ok with the cached result of a task that was not run.
C13_Witness ==
    /\ ex.pc = "returned"
    /\ ret.kind = "Ok"
    /\ \E i \in 1..Len(all_results) :
          /\ hist.probe[all_results[i].name] = "hit"
          /\ all_results[i].cached
          /\ results[all_results[i].name].output = Some(StoredOutput)

\* C14: with force on, cache.get is never called; every task that was
\* processed ran its commands and its TaskResult is not marked cached, and
\* when execute returns Ok every task of the plan ran.
C14_ForceBypass ==
    execCfg.force =>
        /\ \A t \in DOMAIN worker :
              /\ hist.probe[t] = "none"
              /\ PastProbe(t) => t \in hist.ran
              /\ ~results[t].cached
        /\ \A i \in 1..Len(all_results) : ~all_results[i].cached
        /\ (ex.pc = "returned" /\ ret.kind = "Ok") => PlanTasks \subseteq hist.ran

\* With force on, the commands of a task returned while the cache held a
\* valid entry for it.
C14_Witness ==
    /\ execCfg.force
    /\ execCfg.cache
    /\ \E t \in DOMAIN worker :
          /\ ~config[t].no_cache
          /\ worker[t] = "put"
          /\ ValidEntry(t)
          /\ blobs[CachePath(TaskKey(config, t))] = StoredOutput

\* C15 (as claimed): every worker that terminated returned a TaskResult, and
\* execute returns no error but TaskFailed for a task whose allow_failure
\* is false (or TaskNotFound for its target).
C15_ErrorsCaptured ==
    /\ \A t \in DOMAIN worker : Terminated(worker[t]) => results[t] # NoResult
    /\ (ex.pc = "returned" /\ ret.kind \notin {"Ok", "TaskNotFound"}) =>
          /\ ret.kind = "TaskFailed"
          /\ ~config[ret.task].allow_failure

\* The names of the TaskResults that execute collected.
ResultNames == [i \in 1..Len(all_results) |-> all_results[i].name]

RECURSIVE Flatten(_)
Flatten(groups) ==
    IF groups = <<>> THEN <<>> ELSE Head(groups) \o Flatten(Tail(groups))

\* The stage of a task of the plan.
StageOf(t) == CHOOSE i \in 1..Len(plan) : t \in Range(plan[i])

\* C16 (as claimed): in the sequence that execute returns, the results are
\* in the order of the stages, and within a stage in the order in which the
\* workers completed.
C16_CompletionOrder ==
    (ex.pc = "returned" /\ ret.kind = "Ok") =>
        \A i \in 1..Len(all_results), j \in 1..Len(all_results) :
            i < j =>
                /\ StageOf(ResultNames[i]) <= StageOf(ResultNames[j])
                /\ StageOf(ResultNames[i]) = StageOf(ResultNames[j]) =>
                      Pos(hist.completed, ResultNames[i])
                          < Pos(hist.completed, ResultNames[j])

\* C16 (amended): the results collected so far are the first tasks of the
\* plan, stage by stage and within a stage in the order of the stage's
\* list; the sequence that execute returns holds every task of the plan.
C16_PlanOrder ==
    /\ ex.pc # "idle" =>
          /\ Len(ResultNames) <= Len(Flatten(plan))
          /\ ResultNames = SubSeq(Flatten(plan), 1, Len(ResultNames))
    /\ (ex.pc = "returned" /\ ret.kind = "Ok") => ResultNames = Flatten(plan)

\* execute returned the results of a stage of two tasks in the order of
\* the stage, while the second task completed first.
C16_Witness ==
    /\ ex.pc = "returned"
    /\ ret.kind = "Ok"
    /\ Len(plan) = 2
    /\ Len(plan[1]) = 2
    /\ ResultNames = Flatten(plan)
    /\ Pos(hist.completed, plan[1][2]) < Pos(hist.completed, plan[1][1])

\* C17 (as claimed): a task with a timeout whose command never terminates
\* eventually has a TaskResult with success = false, and execute returns.
C17_TimeoutFails ==
    \A t \in Range(RunTasks) :
        (worker[t] = "hung" /\ config[t].timeout # None)
            ~> (/\ results[t] # NoResult
                /\ ~results[t].success
                /\ ex.pc = "returned")

\* C18: the put of a task's output is made after the task's commands
\* returned Ok, and when no task that depends on it has been started.
C18_PutOrdering ==
    [][\A t \in DOMAIN worker :
          (t \in hist'.puts /\ t \notin hist.puts) =>
              /\ t \in hist.cmds_ok
              /\ \A b \in DOMAIN worker :
                    t \in TransDeps(config, b) => ~Started(worker'[b])]_vars

\* The output of a task was put, and a task that depends on it was started
\* afterwards.
C18_Witness ==
    \E t \in DOMAIN worker, b \in DOMAIN worker :
        /\ t \in hist.puts
        /\ t \in TransDeps(config, b)
        /\ Started(worker[b])

\* C20 (as claimed): a probe that finds a malformed sidecar is a miss: the
\* commands of the task are run, and execute returns no cache error.
C20_MalformedIsMiss ==
    /\ \A t \in DOMAIN worker :
          (hist.probe[t] # "none" /\ MalformedEntry(t)) =>
              /\ hist.probe[t] = "miss"
              /\ t \in hist.ran
    /\ ex.pc = "returned" => ret.kind # "Cache"

-----------------------------------------------------------------------------
(* The order of all_tasks_ordered and execution_order over runs            *)

\* The depth-first search of petgraph::algo::toposort from the nodes on the
\* stack: a node is discovered when it is first on top, and its undiscovered
\* neighbours are pushed; it finishes when it is on top again.
RECURSIVE TopoDfs(_, _, _)
TopoDfs(cfg, it, st) ==
    IF st.stack = <<>> THEN st
    ELSE LET nx == st.stack[Len(st.stack)]
         IN  IF nx \notin st.discovered
             THEN LET disc == st.discovered \cup {nx}
                  IN  TopoDfs(cfg, it,
                          [st EXCEPT
                             !.discovered = disc,
                             !.stack = @ \o SelectSeq(Neighbors(cfg, it, nx),
                                                      LAMBDA n : n \notin disc)])
             ELSE TopoDfs(cfg, it,
                      [st EXCEPT
                         !.stack = SubSeq(@, 1, Len(@) - 1),
                         !.finished = @ \cup {nx},
                         !.finish_stack = IF nx \in st.finished THEN @
                                          ELSE Append(@, nx)])

\* The loop of toposort over g.node_identifiers().rev(), from the i-th of
\* them on; the node indices follow the iteration order `it`.
RECURSIVE TopoRoots(_, _, _, _)
TopoRoots(cfg, it, i, st) ==
    IF i > Len(it) THEN st
    ELSE LET root == Reverse(it)[i]
         IN  IF root \in st.discovered
             THEN TopoRoots(cfg, it, i + 1, st)
             ELSE TopoRoots(cfg, it, i + 1,
                            TopoDfs(cfg, it, [st EXCEPT !.stack = <<root>>]))

\* petgraph::algo::toposort of the acyclic graph that from_config builds
\* when config.tasks is iterated in the order `it`.
ToposortOf(cfg, it) ==
    Reverse(TopoRoots(cfg, it, 1,
                [stack |-> <<>>, discovered |-> {}, finished |-> {},
                 finish_stack |-> <<>>]).finish_stack)

\* TaskGraph::all_tasks_ordered.
AllTasksOrdered(cfg, it) == ToposortOf(cfg, it)

\* TaskGraph::execution_order for a task of the graph.
ExecutionOrderOf(cfg, it, task_name) ==
    LET required_nodes == GetAncestors(BuildGraph(cfg), task_name)
    IN  SelectSeq(ToposortOf(cfg, it), LAMBDA n : n \in required_nodes)

InitOrder ==
    /\ config \in {c \in GraphConfigs :
                      ~HasMissing(c) /\ ~IsCyclicDirected(BuildGraph(c))}
    /\ gphase = "config"
    /\ graphRes = NoGraph
    /\ orderRes = NoOrder
    /\ plan = <<>>
    /\ target \in Tasks
    /\ runs = <<>>
    /\ ExecUnused
    /\ CacheUnused
    /\ TaskUnused
    /\ WatchUnused
    /\ CmdUnused

\* One run of the program on the config: from_config with the iteration
\* order of this run, then all_tasks_ordered and execution_order(target).
\* Two runs are followed.
OrderRun ==
    /\ Len(runs) < 2
    /\ \E it \in Perms(DOMAIN config) :
          runs' = Append(runs,
                    [all |-> AllTasksOrdered(config, it),
                     order |-> ExecutionOrderOf(config, it, target)])
    /\ UNCHANGED <<config, gphase, graphRes, orderRes, plan, target,
                   evars, cvars, tvars, wvars, xvars>>

NextOrder == OrderRun

SpecOrder == InitOrder /\ [][NextOrder]_vars

\* C19 (as claimed): on the same config, every run returns the same
\* sequence from all_tasks_ordered, and from execution_order for the same
\* target.
C19_OrderDeterministic ==
    \A i \in 1..Len(runs), j \in 1..Len(runs) :
        /\ runs[i].all = runs[j].all
        /\ runs[i].order = runs[j].order

\* Every sequence returned is a topological order of the tasks it holds.
OrderIsTopological ==
    \A i \in 1..Len(runs) :
        /\ runs[i].all \in Toposort(BuildGraph(config))
        /\ [ok |-> TRUE, tasks |-> runs[i].order, err |-> NoError]
              \in ExecutionOrder(BuildGraph(config), target)

-----------------------------------------------------------------------------
(* The dry run                                                             *)

InitDry == InitExecutor({None}, BOOLEAN)

SpecDry == InitDry /\ [][NextTask]_vars

\* C21: with dry_run set, no step of execute starts a worker, runs a
\* command, or reads or writes the cache, and when execute returns for an
\* existing target it returns Ok with an empty result list.
C21_DryRunNoEffect ==
    [][execCfg.dry_run =>
          /\ UNCHANGED <<worker, results, hist, blobs, metas, all_results>>
          /\ (ret' # NoReturn /\ target' \in DOMAIN config) =>
                 /\ ret'.kind = "Ok"
                 /\ all_results' = <<>>
                 /\ \A t \in DOMAIN config : worker'[t] = "none"
                 /\ hist' = NoHistory(DOMAIN config)]_vars

\* A dry run of task c, with a cache that holds an entry, has returned.
C21_Witness ==
    /\ execCfg.dry_run
    /\ execCfg.cache
    /\ target = "c"
    /\ Len(plan) > 1
    /\ ret # NoReturn
    /\ ret.kind = "Ok"
    /\ ex.pc = "returned"
    /\ blobs # EmptyDir

-----------------------------------------------------------------------------
(* The watcher: TaskWatcher and watch_and_run                              *)

\* The batches that the debouncer delivers while the watcher exists.
MaxBatches == 3

\* The capacity of the channel between the debouncer and the watcher.
ChannelCapacity == 16

\* The paths of the watched directory that events name.
WatchPaths == {"/p/a.rs", "/p/n.txt"}

\* A pattern that Glob::new rejects.
InvalidGlob == "["

\* The default patterns of watch_and_run.
DefaultPatterns == <<"**/*.rs", "**/*.toml", "Cargo.lock">>

\* Glob::new(pattern).is_ok()
GlobOk(pattern) == pattern # InvalidGlob

\* GlobSet::is_match for one pattern of the set.
GlobMatches(pattern, path) ==
    \/ pattern = "**/*.rs" /\ path = "/p/a.rs"
    \/ pattern = "**/*.toml" /\ path = "/p/b.toml"
    \/ pattern = "**/*.txt" /\ path = "/p/n.txt"

\* self.patterns.is_match(p)
PatternsMatch(patterns, path) ==
    \E i \in 1..Len(patterns) : GlobMatches(patterns[i], path)

\* The watch patterns that watch_and_run determines for the task.
WatchPatterns(tc) ==
    IF tc.watch = <<>>
    THEN IF tc.sources = <<>> THEN DefaultPatterns ELSE tc.sources
    ELSE tc.watch

\* Mutant: wait_for_change keeps every path of the batch.
MatchingUnfiltered(patterns, paths) == paths
\* paths.into_iter().filter(|p| self.patterns.is_match(p)).collect()
Matching(patterns, paths) ==
    SelectSeq(paths, LAMBDA p : PatternsMatch(patterns, p))

\* The batches of paths of one debouncer tick.
Batches == {<<>>} \cup {<<p>> : p \in WatchPaths}
              \cup {b \in WatchPaths \X WatchPaths : b[1] # b[2]}

\* What Executor::execute returns to watch_and_run: Ok with every task
\* succeeded, Ok with a failed task that allows failure, or an error.
RunOutcomes == {"Ok", "OkTaskFailed", "TaskFailed", "Io"}

\* The task configurations of the watched task, and whether the graph has
\* the task.
WatchConfigs ==
    [watch : {<<>>, <<"**/*.txt">>, <<InvalidGlob>>},
     sources : {<<>>, <<"**/*.rs">>},
     has_task : BOOLEAN]

\* 1 for a run that failed: execute returned an error, or a task failed.
Failed(outcome) == IF outcome = "Ok" THEN 0 ELSE 1

\* Mutant: the result of a run is propagated with `?`.
AfterRunPropagating(outcome) ==
    IF outcome \in {"Ok", "OkTaskFailed"} THEN "wait" ELSE "returned"
\* let _ = executor.execute(graph, task_name).await; the loop goes on.
AfterRun(outcome) == "wait"

InitWatch ==
    /\ config = <<>>
    /\ gphase = "config"
    /\ graphRes = NoGraph
    /\ orderRes = NoOrder
    /\ plan = <<>>
    /\ target = ""
    /\ runs = <<>>
    /\ ExecUnused
    /\ CacheUnused
    /\ TaskUnused
    /\ \E tc \in WatchConfigs :
          watch = [pc |-> "start",         \* where watch_and_run is
                   task |-> tc,            \* the watched task
                   patterns |-> <<>>,      \* TaskWatcher::patterns
                   rx |-> <<>>,            \* the channel's queued batches
                   sent |-> 0,             \* the batches delivered so far
                   sent_matching |-> 0,    \* those of them with a matching path
                   received |-> <<>>,      \* the batch recv returned last
                   recv_matching |-> 0,    \* the received ones with a matching path
                   changed |-> <<>>,       \* what wait_for_change returned
                   returns |-> 0,          \* the returns of wait_for_change
                   started |-> 0,          \* the runs started
                   finished |-> 0,         \* the runs that returned
                   failed |-> 0,           \* those of them that failed
                   outcome |-> "none",     \* what the last of them returned
                   ret |-> "none"]         \* what watch_and_run returned
    /\ CmdUnused

\* graph.get_task(task_name).ok_or_else(TaskNotFound)?, the patterns, and
\* the start of the initial run.
WatchStart ==
    /\ watch.pc = "start"
    /\ watch' = IF ~watch.task.has_task
                THEN [watch EXCEPT !.pc = "returned", !.ret = "TaskNotFound"]
                ELSE [watch EXCEPT !.pc = "initial_run",
                                   !.patterns = WatchPatterns(watch.task),
                                   !.started = @ + 1]
    /\ UNCHANGED <<gvars, evars, cvars, tvars, xvars>>

\* The initial run returns; TaskWatcher::new(..)? and watcher.watch(..)?.
WatchSetup ==
    /\ watch.pc = "initial_run"
    /\ \E outcome \in RunOutcomes, watch_ok \in BOOLEAN :
          watch' = IF \E i \in 1..Len(watch.patterns) : ~GlobOk(watch.patterns[i])
                   THEN [watch EXCEPT !.pc = "returned", !.ret = "Watch",
                                      !.finished = @ + 1,
                                      !.failed = @ + Failed(outcome),
                                      !.outcome = outcome]
                   ELSE IF ~watch_ok
                   THEN [watch EXCEPT !.pc = "returned", !.ret = "Watch",
                                      !.finished = @ + 1,
                                      !.failed = @ + Failed(outcome),
                                      !.outcome = outcome]
                   ELSE [watch EXCEPT !.pc = "wait",
                                      !.finished = @ + 1,
                                      !.failed = @ + Failed(outcome),
                                      !.outcome = outcome]
    /\ UNCHANGED <<gvars, evars, cvars, tvars, xvars>>

\* The debouncer's callback: tx_clone.blocking_send(paths).
Deliver ==
    /\ watch.pc \in {"wait", "run"}
    /\ watch.sent < MaxBatches
    /\ Len(watch.rx) < ChannelCapacity
    /\ \E paths \in Batches :
          watch' = [watch EXCEPT
                      !.rx = Append(@, paths),
                      !.sent = @ + 1,
                      !.sent_matching =
                          IF Matching(watch.patterns, paths) # <<>>
                          THEN @ + 1 ELSE @]
    /\ UNCHANGED <<gvars, evars, cvars, tvars, xvars>>

\* One turn of the loop of wait_for_change: recv, filter, and return if a
\* path matches; then watch_and_run starts the run.
WaitForChange ==
    /\ watch.pc = "wait"
    /\ watch.rx # <<>>
    /\ LET paths == Head(watch.rx)
           matching == Matching(watch.patterns, paths)
       IN  watch' = IF matching # <<>>
                    THEN [watch EXCEPT !.rx = Tail(@),
                                       !.received = paths,
                                       !.recv_matching = @ + 1,
                                       !.changed = matching,
                                       !.returns = @ + 1,
                                       !.started = @ + 1,
                                       !.pc = "run"]
                    ELSE [watch EXCEPT !.rx = Tail(@),
                                       !.received = paths]
    /\ UNCHANGED <<gvars, evars, cvars, tvars, xvars>>

\* The run of the loop returns.
RunEnd ==
    /\ watch.pc = "run"
    /\ \E outcome \in RunOutcomes :
          watch' = [watch EXCEPT !.pc = AfterRun(outcome),
                                 !.finished = @ + 1,
                                      !.failed = @ + Failed(outcome),
                                      !.outcome = outcome]
    /\ UNCHANGED <<gvars, evars, cvars, tvars, xvars>>

NextWatch == WatchStart \/ WatchSetup \/ Deliver \/ WaitForChange \/ RunEnd

\* watch_and_run is scheduled, and every run it starts returns; the
\* debouncer delivers what the file system does.
SpecWatch ==
    /\ InitWatch
    /\ [][NextWatch]_vars
    /\ WF_vars(WatchStart)
    /\ WF_vars(WatchSetup)
    /\ WF_vars(WaitForChange)
    /\ WF_vars(RunEnd)

\* watch_and_run is in its loop.
InLoop == watch # <<>> /\ watch.pc \in {"wait", "run"}

\* C22: watch_and_run runs the task once and then once more for every
\* received batch with a matching path; once in its loop it stays there
\* whatever a run returns; and every delivered batch with a matching path
\* is followed by the start of a run for it.
C22_WatchLoop ==
    /\ [](InLoop => watch.started = 1 + watch.recv_matching)
    /\ [][InLoop => InLoop']_vars
    /\ \A n \in 1..MaxBatches :
          (InLoop /\ watch.sent_matching >= n) ~> (watch.started >= n + 1)

\* A run of the loop failed, and a later batch started the next run.
C22_Witness ==
    /\ InLoop
    /\ watch.pc = "run"
    /\ watch.finished = 2
    /\ watch.failed = 2
    /\ watch.outcome \in {"TaskFailed", "Io"}
    /\ watch.started = 3

\* C23: when wait_for_change receives a batch, it returns if and only if a
\* path of the batch matches the glob set; what it returns is then not
\* empty and holds only matching paths of the batch, and otherwise it
\* goes on waiting.
C23_WaitForChange ==
    [][(watch # <<>> /\ watch.pc = "wait" /\ Len(watch'.rx) < Len(watch.rx)) =>
          LET b == Head(watch.rx) IN
          IF \E i \in 1..Len(b) : PatternsMatch(watch.patterns, b[i])
          THEN /\ watch'.returns = watch.returns + 1
               /\ watch'.changed # <<>>
               /\ \A i \in 1..Len(watch'.changed) :
                     /\ PatternsMatch(watch.patterns, watch'.changed[i])
                     /\ \E j \in 1..Len(b) : b[j] = watch'.changed[i]
          ELSE /\ watch'.returns = watch.returns
               /\ watch'.changed = watch.changed
               /\ watch'.pc = "wait"]_vars

\* wait_for_change discarded a batch and later returned the one matching
\* path of a batch of two.
C23_Witness ==
    /\ watch # <<>>
    /\ watch.returns >= 1
    /\ watch.sent - Len(watch.rx) > watch.recv_matching
    /\ Len(watch.received) = 2
    /\ Len(watch.changed) = 1
    /\ watch.pc = "run"

-----------------------------------------------------------------------------
(* The TaskNotFound error of from_config                                   *)

\* The position of a task name in the sorted order of the names.
NameRank(n) == CHOOSE i \in 1..4 : <<"a", "b", "c", "d">>[i] = n

\* s is a sequence of task names in strictly ascending order.
IsSortedNames(s) ==
    \A i \in 1..Len(s), j \in 1..Len(s) : i < j => NameRank(s[i]) < NameRank(s[j])

\* C24 (as claimed): when a task lists a dependency that is no task,
\* from_config fails with TaskNotFound naming such a dependency, and the
\* available list is the defined task names in sorted order.
C24_TaskNotFoundSorted ==
    (gphase # "config" /\ HasMissing(config)) =>
        /\ ~graphRes.ok
        /\ graphRes.err.kind = "TaskNotFound"
        /\ \E t \in DOMAIN config : graphRes.err.name \in MissingDeps(config, t)
        /\ {graphRes.err.available[i] : i \in 1..Len(graphRes.err.available)}
              = DOMAIN config
        /\ IsSortedNames(graphRes.err.available)

-----------------------------------------------------------------------------
(* The result list of a successful execute                                 *)

\* The number of TaskResults for task t in execute's result list.
ResultCount(t) ==
    Cardinality({i \in 1..Len(all_results) : all_results[i].name = t})

\* C25: when an execute that is no dry run returns Ok, its result list has
\* exactly one TaskResult for the target and for each of its transitive
\* dependencies, none for any other task, and every result with
\* success = false is of a task that allows failure.
C25_OneResultPerTask ==
    (ex.pc = "returned" /\ ret.kind = "Ok" /\ ~execCfg.dry_run) =>
        /\ \A t \in DOMAIN config :
              ResultCount(t) =
                  IF t \in GetAncestors(graphRes.graph, target) THEN 1 ELSE 0
        /\ \A i \in 1..Len(all_results) :
              /\ all_results[i].name \in DOMAIN config
              /\ ~all_results[i].success =>
                    config[all_results[i].name].allow_failure

\* execute returned Ok for b, which depends on a: two results, one of them
\* a failure that is allowed, and none for c.
C25_Witness ==
    /\ ex.pc = "returned"
    /\ ret.kind = "Ok"
    /\ ~execCfg.dry_run
    /\ target = "b"
    /\ Len(all_results) = 2
    /\ \E i \in 1..2 : ~all_results[i].success
    /\ ResultCount("c") = 0

-----------------------------------------------------------------------------
(* The stages of ExecutionPlan::from_tasks                                 *)

\* The sets of tasks of the stages of a plan, by stage index.
StageSets(p) == [i \in 1..Len(p) |-> Range(p[i])]

\* C26: the stages of the plan partition the tasks that
\* execution_order(target) returned: no task is in two stages or twice in
\* one, every returned task is in a stage and no other task is, and no stage
\* is empty.
C26_StagesPartition ==
    Planned =>
        /\ \A i \in 1..Len(plan) : plan[i] # <<>>
        /\ \A i \in 1..Len(plan), j \in 1..Len(plan) :
              i # j => Range(plan[i]) \cap Range(plan[j]) = {}
        /\ \A i \in 1..Len(plan) : Cardinality(Range(plan[i])) = Len(plan[i])
        /\ UNION {Range(plan[i]) : i \in 1..Len(plan)} = Range(orderRes.tasks)

\* A plan of two stages was made, for a target with three dependencies
\* that are independent of each other.
C26_Witness ==
    /\ Planned
    /\ Len(plan) = 2
    /\ Len(plan[1]) = 3
    /\ plan[2] = <<target>>

\* The largest element of a non-empty set of naturals.
MaxOf(S) == CHOOSE m \in S : \A n \in S : n <= m

\* The number of edges of the longest dependency chain that ends in t.
RECURSIVE Depth(_, _)
Depth(cfg, t) ==
    IF cfg[t].depends = {} THEN 0
    ELSE 1 + MaxOf({Depth(cfg, d) : d \in cfg[t].depends})

\* C27: a task without dependencies is in stage 0, any other task in the
\* stage after the last stage of its direct dependencies, and so the stage
\* index of a task is the number of edges of the longest dependency chain
\* ending in it (stage indices counted from 0).
C27_SmallestStage ==
    Planned =>
        \A i \in 1..Len(plan) : \A t \in Range(plan[i]) :
            /\ config[t].depends = {} => i - 1 = 0
            /\ config[t].depends # {} =>
                  i - 1 = 1 + MaxOf({MaxOf(StagesOf(plan, d)) - 1 :
                                        d \in config[t].depends})
            /\ i - 1 = Depth(config, t)

\* The diamond: b and c depend on a, d depends on b and c, and the plan of d
\* has the stages {a}, {b, c}, {d}.
C27_Witness ==
    /\ Planned
    /\ target = "d"
    /\ config["a"].depends = {}
    /\ config["b"].depends = {"a"}
    /\ config["c"].depends = {"a"}
    /\ config["d"].depends = {"b", "c"}
    /\ StageSets(plan) = <<{"a"}, {"b", "c"}, {"d"}>>

\* Kahn's algorithm on the nodes left: the nodes without an edge from a
\* node left are peeled, and make one stage.
RECURSIVE KahnStages(_, _)
KahnStages(nodes, edges) ==
    IF nodes = {} THEN <<>>
    ELSE LET peel == {n \in nodes :
                         ~\E e \in edges : e[2] = n /\ e[1] \in nodes}
         IN  IF peel = {} THEN <<nodes>>
             ELSE <<peel>> \o KahnStages(nodes \ peel, edges)

\* C28: the stages of the plan are, index by index, the sets that Kahn's
\* algorithm peels from the graph restricted to the target's ancestors.
C28_KahnEquivalence ==
    Planned =>
        StageSets(plan) =
            KahnStages(GetAncestors(graphRes.graph, target), graphRes.graph.edges)

\* A plan of three stages for a target with ancestors of different depths,
\* one of which is not an ancestor of every other task: a task outside the
\* closure exists too.
C28_Witness ==
    /\ Planned
    /\ Len(plan) = 3
    /\ Len(plan[1]) = 2
    /\ Len(plan[2]) = 1
    /\ Cardinality(GetAncestors(graphRes.graph, target)) = 4

\* C29: whichever topological order of the target's closure
\* execution_order returns, from_tasks gives the same set of tasks at every
\* stage index.
C29_PlanDeterministic ==
    Planned =>
        \A r \in ExecutionOrder(graphRes.graph, target) :
            StageSets(FromTasks(r.tasks, graphRes.graph)) = StageSets(plan)

\* The closure of the target has several topological orders, and the plan
\* has a stage of two tasks and a later stage.
C29_Witness ==
    /\ Planned
    /\ Cardinality({r.tasks : r \in ExecutionOrder(graphRes.graph, target)}) >= 3
    /\ Len(plan) >= 2
    /\ \E i \in 1..Len(plan) : Len(plan[i]) = 2

\* a and b are unrelated: neither is a transitive dependency of the other.
Unrelated(a, b) ==
    /\ a # b
    /\ a \notin TransDeps(config, b)
    /\ b \notin TransDeps(config, a)

\* Stage i of the plan is an antichain.
IsAntichain(i) ==
    \A a \in Range(plan[i]) : \A b \in Range(plan[i]) : a # b => Unrelated(a, b)

\* No task of the plan outside stage i is unrelated to every task of it.
IsMaximal(i) ==
    \A t \in Range(orderRes.tasks) \ Range(plan[i]) :
        \E s \in Range(plan[i]) : ~Unrelated(t, s)

\* C30 (as claimed): every stage of the plan is a maximal antichain of the
\* plan's tasks.
C30_MaximalAntichain ==
    Planned => \A i \in 1..Len(plan) : IsAntichain(i) /\ IsMaximal(i)

\* C30 (amended): every stage of the plan is an antichain of the plan's
\* tasks, and the first stage is a maximal one.
C30_AntichainFirstMaximal ==
    Planned =>
        /\ \A i \in 1..Len(plan) : IsAntichain(i)
        /\ plan # <<>> => IsMaximal(1)

\* A plan with a later stage that is no maximal antichain: a task of the
\* first stage is unrelated to every task of it.
C30_Witness ==
    /\ Planned
    /\ Len(plan) = 3
    /\ ~IsMaximal(2)
    /\ IsMaximal(1)

-----------------------------------------------------------------------------
(* The writes to the cache                                                 *)

\* The worker of t has ended.
Ended(t) == worker[t] \in {"ok", "cached", "fail", "err", "panic"}

\* C31: the output of a task is put into the cache exactly when its
\* commands were run (no cache hit) and succeeded, the executor has a cache
\* and the task has no_cache = false; the cache files change in no other
\* step; a failed task puts nothing, and a task whose put failed still has
\* a TaskResult with success = true.
C31_PutExactlyOnSuccess ==
    /\ [](\A t \in DOMAIN worker :
            /\ t \in hist.puts => Ended(t)
            /\ Ended(t) =>
                  (t \in hist.puts <=>
                      /\ t \in hist.ran
                      /\ t \in hist.cmds_ok
                      /\ hist.probe[t] # "hit"
                      /\ execCfg.cache
                      /\ ~config[t].no_cache)
            /\ worker[t] = "fail" => t \notin hist.puts
            /\ t \in hist.put_failed =>
                  /\ results[t] # NoResult
                  /\ results[t].success
                  /\ ~results[t].cached)
    /\ [][(blobs' # blobs \/ metas' # metas) =>
             \E t \in DOMAIN worker :
                 /\ t \notin hist.puts
                 /\ hist'.puts = hist.puts \cup {t}
                 /\ worker[t] = "put"]_vars

\* One task failed and put nothing, another succeeded while its put failed
\* after the blob was written, and a third succeeded and was put.
C31_Witness ==
    /\ \E t \in DOMAIN worker : worker[t] = "fail" /\ t \notin hist.puts
    /\ \E t \in hist.put_failed :
          /\ results[t].success
          /\ CachePath(TaskKey(config, t)) \in DOMAIN blobs
          /\ MetaPath(TaskKey(config, t)) \notin DOMAIN metas
    /\ \E t \in hist.puts \ hist.put_failed : results[t].success

-----------------------------------------------------------------------------
(* Executor::parse_command                                                 *)

\* The longest command string parsed.
MaxCmdLen == 5

\* The characters of the command strings: letters, the space, the tab, and
\* the two quote characters.
Chars == {"a", "b", " ", "\t", "\"", "'"}

\* The command strings: sequences of characters.
CmdStrings == UNION {[1..n -> Chars] : n \in 0..MaxCmdLen}

\* The loop of parse_command over cmd.chars(), from the i-th character on;
\* st is [parts, current, in_quotes, quote_char].
RECURSIVE ParseChars(_, _, _)
ParseChars(cmd, i, st) ==
    IF i > Len(cmd) THEN st
    ELSE LET c == cmd[i] IN
         ParseChars(cmd, i + 1,
            IF c \in {"\"", "'"} /\ ~st.in_quotes
            THEN [st EXCEPT !.in_quotes = TRUE, !.quote_char = c]
            ELSE IF c = st.quote_char /\ st.in_quotes
            THEN [st EXCEPT !.in_quotes = FALSE]
            ELSE IF c = " " /\ ~st.in_quotes
            THEN IF st.current # <<>>
                 THEN [st EXCEPT !.parts = Append(@, st.current),
                                 !.current = <<>>]
                 ELSE st
            ELSE [st EXCEPT !.current = Append(@, c)])

\* Executor::parse_command(cmd, use_shell).
ParseCommand(cmd, use_shell) ==
    IF use_shell THEN <<cmd>>
    ELSE LET st == ParseChars(cmd, 1, [parts |-> <<>>, current |-> <<>>,
                                       in_quotes |-> FALSE, quote_char |-> "\""])
         IN  IF st.current # <<>> THEN Append(st.parts, st.current) ELSE st.parts

InitParse ==
    /\ config = <<>>
    /\ gphase = "config"
    /\ graphRes = NoGraph
    /\ orderRes = NoOrder
    /\ plan = <<>>
    /\ target = ""
    /\ runs = <<>>
    /\ ExecUnused
    /\ CacheUnused
    /\ TaskUnused
    /\ WatchUnused
    /\ \E cmd \in CmdStrings, use_shell \in BOOLEAN :
          cmdrun = [pc |-> "start", cmd |-> cmd, shell |-> use_shell,
                    parts |-> <<>>]

\* let parts = Self::parse_command(cmd, exec_config.shell);
Parse ==
    /\ cmdrun.pc = "start"
    /\ cmdrun' = [cmdrun EXCEPT !.pc = "parsed",
                                !.parts = ParseCommand(cmdrun.cmd, cmdrun.shell)]
    /\ UNCHANGED <<gvars, evars, cvars, tvars, wvars>>

NextParse == Parse

SpecParse == InitParse /\ [][NextParse]_vars

\* The whitespace characters.
IsWhitespace(c) == c \in {" ", "\t"}

\* The tokens of the characters of cmd from the i-th on, split at
\* whitespace outside quotes: cur is the token being read (None between
\* tokens), q the quote character of the open quoted region (None outside).
RECURSIVE TokensFrom(_, _, _, _)
TokensFrom(cmd, i, cur, q) ==
    IF i > Len(cmd) THEN (IF cur = None THEN <<>> ELSE <<cur[1]>>)
    ELSE LET c == cmd[i]
             text == IF cur = None THEN <<>> ELSE cur[1]
         IN  IF q # None
             THEN IF c = q[1] THEN TokensFrom(cmd, i + 1, Some(text), None)
                  ELSE TokensFrom(cmd, i + 1, Some(Append(text, c)), q)
             ELSE IF c \in {"\"", "'"}
             THEN TokensFrom(cmd, i + 1, Some(text), Some(c))
             ELSE IF IsWhitespace(c)
             THEN (IF cur = None THEN <<>> ELSE <<text>>)
                      \o TokensFrom(cmd, i + 1, None, None)
             ELSE TokensFrom(cmd, i + 1, Some(Append(text, c)), None)

\* The tokens without the empty ones.
NonEmpty(tokens) == SelectSeq(tokens, LAMBDA t : t # <<>>)

\* C34 (as claimed): in direct mode the tokens of parse_command are the
\* pieces of the command string between whitespace that is outside quotes,
\* with the opening and closing quote characters removed and everything
\* else, whitespace inside quotes included, kept as it is.
C34_ParseCommand ==
    (cmdrun.pc = "parsed" /\ ~cmdrun.shell) =>
        cmdrun.parts = NonEmpty(TokensFrom(cmdrun.cmd, 1, None, None))

-----------------------------------------------------------------------------
(* Executor::execute_commands_sequential and execute_command               *)

\* The most commands of the task.
MaxCommands == 3

\* The command strings of the task: a word, two words, the empty string,
\* a space, and two quote characters.
CmdSamples ==
    {<<"a">>, <<"a", " ", "b">>, <<>>, <<" ">>, <<"\"", "\"">>}

\* How the process of a command ends: exit code 0, another exit code, or
\* an I/O error of command.output() (the program cannot be started).
ExitKinds == {"zero", "nonzero", "io"}

\* Mutant: the error of a command is dropped and the loop goes on.
CommandFailedIgnored(exit) == FALSE
\* command.output().await? and !output.status.success(): the command
\* returns Err, which execute_commands_sequential propagates with `?`.
CommandFailed(exit) == exit # "zero"

InitCmd ==
    /\ config = <<>>
    /\ gphase = "config"
    /\ graphRes = NoGraph
    /\ orderRes = NoOrder
    /\ plan = <<>>
    /\ target = ""
    /\ runs = <<>>
    /\ ExecUnused
    /\ CacheUnused
    /\ TaskUnused
    /\ WatchUnused
    /\ \E commands \in UNION {[1..n -> CmdSamples] : n \in 0..MaxCommands},
          use_shell \in BOOLEAN :
          cmdrun = [pc |-> "loop",          \* where the task's commands are
                    commands |-> commands,  \* TaskConfig::run
                    shell |-> use_shell,    \* exec_config.shell
                    idx |-> 1,              \* the command the loop is at
                    parts |-> <<>>,         \* its tokens
                    started |-> <<>>,       \* the commands whose process was started
                    exits |-> <<>>,         \* how the processes ended
                    outputs |-> <<>>,       \* the commands whose stdout is in all_output
                    result |-> "none"]      \* Ok, Err, or panic

\* The loop of execute_commands_sequential: the next command is given to
\* execute_command, which parses it; after the last one, Ok(all_output).
CmdNext ==
    /\ cmdrun.pc = "loop"
    /\ cmdrun' = IF cmdrun.idx > Len(cmdrun.commands)
                 THEN [cmdrun EXCEPT !.pc = "done", !.result = "Ok"]
                 ELSE [cmdrun EXCEPT
                         !.pc = "parsed",
                         !.parts = ParseCommand(cmdrun.commands[cmdrun.idx],
                                                cmdrun.shell)]
    /\ UNCHANGED <<gvars, evars, cvars, tvars, wvars>>

\* execute_command builds the Command: `sh -c cmd` with the shell, else
\* Command::new(&parts[0]), which panics when there is no token; then the
\* process is started.
CmdStart ==
    /\ cmdrun.pc = "parsed"
    /\ cmdrun' = IF ~cmdrun.shell /\ cmdrun.parts = <<>>
                 THEN [cmdrun EXCEPT !.pc = "done", !.result = "panic"]
                 ELSE [cmdrun EXCEPT !.pc = "running",
                                     !.started = Append(@, cmdrun.idx)]
    /\ UNCHANGED <<gvars, evars, cvars, tvars, wvars>>

\* command.output().await returns, and the loop takes the result.
CmdExit ==
    /\ cmdrun.pc = "running"
    /\ \E exit \in ExitKinds :
          cmdrun' = IF CommandFailed(exit)
                    THEN [cmdrun EXCEPT !.pc = "done", !.result = "Err",
                                        !.exits = Append(@, exit)]
                    ELSE [cmdrun EXCEPT !.pc = "loop",
                                        !.idx = @ + 1,
                                        !.exits = Append(@, exit),
                                        !.outputs = Append(@, cmdrun.idx)]
    /\ UNCHANGED <<gvars, evars, cvars, tvars, wvars>>

NextCmd == CmdNext \/ CmdStart \/ CmdExit

SpecCmd == InitCmd /\ [][NextCmd]_vars

\* C32: the commands are started one at a time in declared order, each
\* after the one before it exited; once a command exited with a non-zero
\* code no later command is started, and the commands end with an error,
\* which makes the task's result a failure.
C32_SequentialAbort ==
    /\ \A i \in 1..Len(cmdrun.started) : cmdrun.started[i] = i
    /\ Len(cmdrun.exits) <= Len(cmdrun.started)
    /\ Len(cmdrun.started) <= Len(cmdrun.exits) + 1
    /\ cmdrun.pc = "running" <=> Len(cmdrun.started) = Len(cmdrun.exits) + 1
    /\ \A i \in 1..Len(cmdrun.exits) :
          cmdrun.exits[i] = "nonzero" =>
              /\ Len(cmdrun.started) = i
              /\ cmdrun.pc = "done"
              /\ cmdrun.result = "Err"
    /\ cmdrun.result = "Ok" =>
          /\ Len(cmdrun.started) = Len(cmdrun.commands)
          /\ \A i \in 1..Len(cmdrun.exits) : cmdrun.exits[i] = "zero"

\* The second of three commands exited with a non-zero code after the
\* first exited with 0; the third was not started.
C32_Witness ==
    /\ Len(cmdrun.commands) = 3
    /\ cmdrun.exits = <<"zero", "nonzero">>
    /\ cmdrun.started = <<1, 2>>
    /\ cmdrun.result = "Err"

\* C40 (as claimed): in direct mode the commands of a task never end in a
\* panic, whatever the command strings are: they end with Ok or with an
\* error, from which the task's TaskResult is made.
C40_NoPanic ==
    ~cmdrun.shell => cmdrun.result # "panic"

-----------------------------------------------------------------------------
(* Cache::invalidate on a directory left by earlier runs                   *)

\* What the directory holds for a key: nothing, the blob and the sidecar,
\* or one of them without the other.
FileKinds == {"none", "both", "blob_only", "meta_only"}

\* The key of the input i when the source file has the content `file`.
KeyOfInput(i, file) ==
    ComputeKey(i.task_name, i.config, file,
               CHOOSE iter \in Perms(DOMAIN i.config.env) : TRUE)

\* The directory files of kind k for the input i.
BlobsOf(i, file, k) ==
    IF k \in {"both", "blob_only"}
    THEN Write(EmptyDir, CachePath(KeyOfInput(i, file)), StoredOutput)
    ELSE EmptyDir
MetasOf(i, file, k) ==
    LET key == KeyOfInput(i, file)
    IN  IF k \in {"both", "meta_only"}
        THEN Write(EmptyDir, MetaPath(key),
                   ToJson(CacheEntry(key, i.task_name, StoredOutput)))
        ELSE EmptyDir

InitInvalidate ==
    /\ config = <<>>
    /\ gphase = "config"
    /\ graphRes = NoGraph
    /\ orderRes = NoOrder
    /\ plan = <<>>
    /\ target = ""
    /\ runs = <<>>
    /\ ExecUnused
    /\ enabled \in BOOLEAN
    /\ srcFile \in Contents
    /\ \E a \in 1..Len(CacheInputSeq), b \in 1..Len(CacheInputSeq) :
          a <= b /\ inA = CacheInputSeq[a] /\ inB = CacheInputSeq[b]
    /\ \E ka \in FileKinds, kb \in FileKinds :
          /\ blobs = BlobsOf(inA, srcFile, ka) @@ BlobsOf(inB, srcFile, kb)
          /\ metas = MetasOf(inA, srcFile, ka) @@ MetasOf(inB, srcFile, kb)
    /\ last = NoGet
    /\ live = {}
    /\ nops = 0
    /\ TaskUnused
    /\ WatchUnused
    /\ CmdUnused

NextInvalidate == CacheInvalidate \/ CacheGet \/ ModifySource

SpecInvalidate == InitInvalidate /\ [][NextInvalidate]_vars

\* The key of the input of the operation recorded in r.
KeyOfRecord(r) == KeyOfInput(r, r.file)

\* C33: an invalidate of (n, c) on an enabled cache removes the blob and
\* the sidecar stored under the key of (n, c), whichever of them exist,
\* leaves every other file of the directory as it is, and returns Ok; a
\* get of (n, c) on the directory it leaves returns a miss.
C33_InvalidateFrame ==
    [][(enabled /\ last'.op = "invalidate" /\ nops' = nops + 1) =>
          LET key == KeyOfRecord(last') IN
          /\ DOMAIN blobs' = DOMAIN blobs \ {CachePath(key)}
          /\ DOMAIN metas' = DOMAIN metas \ {MetaPath(key)}
          /\ \A p \in DOMAIN blobs' : blobs'[p] = blobs[p]
          /\ \A p \in DOMAIN metas' : metas'[p] = metas[p]
          /\ last'.res.ok
          /\ \A iter \in Perms(DOMAIN last'.config.env) :
                Get(enabled, blobs', metas', srcFile', last'.task_name,
                    last'.config, iter) = Ok(None)]_vars

\* An invalidate found the sidecar of its key without the blob, removed it,
\* and left the entry of another key in the directory.
C33_Witness ==
    /\ enabled
    /\ last.op = "invalidate"
    /\ ~last.had_blob
    /\ last.had_meta
    /\ MetaPath(KeyOfRecord(last)) \notin DOMAIN metas
    /\ blobs # EmptyDir
    /\ metas # EmptyDir

-----------------------------------------------------------------------------
(* The workers at the return of execute                                    *)

\* The worker of t was spawned and has not ended.
Active(t) == worker[t] \in {"spawned", "running", "exec", "put", "hung"}

\* C35 (as claimed): once execute has returned, with Ok or with an error,
\* no worker it spawned is still at work: none runs a task, and none is
\* about to write to the cache.
C35_NoWorkAfterReturn ==
    ex.pc = "returned" => \A t \in DOMAIN worker : ~Active(t)

\* C35 (amended): once execute has returned Ok, no worker is at work and no
\* step writes to the cache; once it has returned an error, the workers
\* still at work are tasks of the stage at which it stopped, and only
\* their puts write to the cache.
C35_OnlySiblingsAfterError ==
    /\ []((ex.pc = "returned" /\ ret.kind = "Ok") =>
             \A t \in DOMAIN worker : ~Active(t))
    /\ []((ex.pc = "returned" /\ ret.kind # "Ok") =>
             \A t \in DOMAIN worker :
                 Active(t) => ex.group >= 1 /\ t \in Range(plan[ex.group]))
    /\ [][(ex.pc = "returned" /\ (blobs' # blobs \/ metas' # metas)) =>
             /\ ret.kind # "Ok"
             /\ \E t \in Range(plan[ex.group]) :
                   worker[t] = "put" /\ worker'[t] = "ok"]_vars

\* execute returned TaskFailed for a task of a stage of two; the other
\* task of the stage succeeded after the return, and its output was put.
C35_Witness ==
    /\ ex.pc = "returned"
    /\ ret.kind = "TaskFailed"
    /\ Len(plan[ex.group]) = 2
    /\ \E t \in Range(plan[ex.group]) \ {ret.task} :
          /\ worker[t] = "ok"
          /\ t \in hist.puts \ hist.put_failed
          /\ Pos(hist.completed, ret.task) < Pos(hist.completed, t)
          /\ Len(all_results) < Pos(plan[ex.group], t)

-----------------------------------------------------------------------------
(* Concurrent calls of the cache                                           *)

\* The calls of put, get and invalidate that are made, concurrently or one
\* after another.
MaxCalls == 3

\* The inputs of the concurrent calls: tasks without env and sources.
RaceInputs ==
    {i \in CacheInputs :
        /\ i.config.env = [k \in {} |-> ""]
        /\ i.config.sources = <<>>
        /\ i.config.script = None
        /\ i.config.run \in {<<>>, <<"b">>}}

\* The content of a file that was created or truncated and not yet written.
Truncated == ""

\* A call that was not made yet.
NoCall ==
    [op |-> "none", pc |-> "idle", task_name |-> "", key |-> "",
     output |-> "", res |-> Ok(None)]

InitRace ==
    /\ config = <<>>
    /\ gphase = "config"
    /\ graphRes = NoGraph
    /\ orderRes = NoOrder
    /\ plan = <<>>
    /\ target = ""
    /\ runs = <<>>
    /\ ExecUnused
    /\ enabled \in BOOLEAN
    /\ blobs = EmptyDir
    /\ metas = EmptyDir
    /\ srcFile \in Contents
    /\ inA \in RaceInputs
    /\ inB \in RaceInputs
    /\ last = [c \in 1..MaxCalls |-> NoCall]
    /\ live = {}
    /\ nops = 0
    /\ TaskUnused
    /\ WatchUnused
    /\ CmdUnused

\* A worker calls get, put or invalidate: the enabled check and
\* compute_key.  `live` collects the (task name, output) of the puts.
CallBegin(c) ==
    /\ last[c].op = "none"
    /\ \A d \in 1..(c - 1) : last[d].op # "none"
    /\ \E op \in {"get", "put", "invalidate"}, i \in {inA, inB},
          output \in Outputs :
          /\ op # "put" => output = "o1"
          /\ last' = [last EXCEPT ![c] =
                        [op |-> op,
                         pc |-> IF enabled THEN "keyed" ELSE "done",
                         task_name |-> i.task_name,
                         key |-> KeyOfInput(i, srcFile),
                         output |-> IF op = "put" THEN output ELSE "",
                         res |-> Ok(None)]]
          /\ live' = IF op = "put"
                     THEN live \cup {[task_name |-> i.task_name, output |-> output]}
                     ELSE live
    /\ UNCHANGED <<gvars, evars, tvars, wvars, xvars,
                   enabled, blobs, metas, srcFile, inA, inB, nops>>

\* The next file-system step of a get: cache_path.exists(),
\* meta_path.exists(), the read and parse of the sidecar with the check of
\* its task, the read of the blob (an I/O error when it is gone).
GetStep(c) ==
    /\ last[c].op = "get"
    /\ LET call == last[c]
           done(res) == [call EXCEPT !.pc = "done", !.res = res]
       IN  \/ /\ call.pc = "keyed"
              /\ last' = [last EXCEPT ![c] =
                            IF CachePath(call.key) \in DOMAIN blobs
                            THEN [call EXCEPT !.pc = "blob_exists"]
                            ELSE done(Ok(None))]
           \/ /\ call.pc = "blob_exists"
              /\ last' = [last EXCEPT ![c] =
                            IF MetaPath(call.key) \in DOMAIN metas
                            THEN [call EXCEPT !.pc = "meta_exists"]
                            ELSE done(Ok(None))]
           \/ /\ call.pc = "meta_exists"
              /\ last' = [last EXCEPT ![c] =
                            IF MetaPath(call.key) \notin DOMAIN metas
                            THEN done(ErrCache)
                            ELSE LET parsed == FromJson(metas[MetaPath(call.key)])
                                 IN  IF ~parsed.ok THEN done(ErrCache)
                                     ELSE IF ~EntryMatches(parsed.entry, call.task_name)
                                     THEN done(Ok(None))
                                     ELSE [call EXCEPT !.pc = "verified"]]
           \/ /\ call.pc = "verified"
              /\ last' = [last EXCEPT ![c] =
                            IF CachePath(call.key) \in DOMAIN blobs
                            THEN done(Ok(Some(blobs[CachePath(call.key)])))
                            ELSE done(ErrCache)]
    /\ UNCHANGED <<gvars, evars, tvars, wvars, xvars,
                   enabled, blobs, metas, srcFile, inA, inB, live, nops>>

\* The next file-system step of a put: tokio::fs::write of the blob, which
\* creates or truncates the file and then writes the output, and then the
\* same for the sidecar.
PutStep(c) ==
    /\ last[c].op = "put"
    /\ LET call == last[c] IN
       \/ /\ call.pc = "keyed"
          /\ blobs' = Write(blobs, CachePath(call.key), Truncated)
          /\ last' = [last EXCEPT ![c].pc = "blob_open"]
          /\ UNCHANGED metas
       \/ /\ call.pc = "blob_open"
          /\ blobs' = Write(blobs, CachePath(call.key), call.output)
          /\ last' = [last EXCEPT ![c].pc = "blob_written"]
          /\ UNCHANGED metas
       \/ /\ call.pc = "blob_written"
          /\ metas' = Write(metas, MetaPath(call.key), MalformedJson)
          /\ last' = [last EXCEPT ![c].pc = "meta_open"]
          /\ UNCHANGED blobs
       \/ /\ call.pc = "meta_open"
          /\ metas' = Write(metas, MetaPath(call.key),
                            ToJson(CacheEntry(call.key, call.task_name, call.output)))
          /\ last' = [last EXCEPT ![c].pc = "done"]
          /\ UNCHANGED blobs
    /\ UNCHANGED <<gvars, evars, tvars, wvars, xvars,
                   enabled, srcFile, inA, inB, live, nops>>

\* The next file-system step of an invalidate: the blob is removed if it
\* exists, then the sidecar.
InvalidateStep(c) ==
    /\ last[c].op = "invalidate"
    /\ LET call == last[c] IN
       \/ /\ call.pc = "keyed"
          /\ blobs' = Remove(blobs, CachePath(call.key))
          /\ last' = [last EXCEPT ![c].pc = "blob_removed"]
          /\ UNCHANGED metas
       \/ /\ call.pc = "blob_removed"
          /\ metas' = Remove(metas, MetaPath(call.key))
          /\ last' = [last EXCEPT ![c].pc = "done"]
          /\ UNCHANGED blobs
    /\ UNCHANGED <<gvars, evars, tvars, wvars, xvars,
                   enabled, srcFile, inA, inB, live, nops>>

NextRace ==
    \E c \in 1..MaxCalls :
        CallBegin(c) \/ GetStep(c) \/ PutStep(c) \/ InvalidateStep(c)

SpecRace == InitRace /\ [][NextRace]_vars

\* C36 (as claimed): whatever the interleaving of the steps of concurrent
\* puts, gets and invalidates, a get of task name n returns no output but
\* one that was passed to a put for the task name n.
C36_GetReturnsPutOutput ==
    \A c \in 1..MaxCalls :
        (last[c].op = "get" /\ last[c].pc = "done" /\ last[c].res.ok
            /\ last[c].res.value # None) =>
            \E r \in live :
                /\ r.task_name = last[c].task_name
                /\ r.output = last[c].res.value[1]

-----------------------------------------------------------------------------
(* watch_and_run with the workers of its runs                              *)

\* The workers of the run that has returned which have not ended: they are
\* detached when execute returns, with the run they belong to.
Detached(run, w) ==
    {[run |-> run, task |-> t, state |-> w[t]] :
        t \in {u \in DOMAIN w : w[u] \in {"spawned", "running"}}}

InitRerun ==
    /\ config \in ExecConfigs
    /\ gphase = "built"
    /\ graphRes \in {FromConfigResult(config, it, it, "") : it \in Perms(DOMAIN config)}
    /\ orderRes = NoOrder
    /\ plan = <<>>
    /\ target = ""
    /\ runs = <<>>
    /\ execCfg \in [parallelism : 0..MaxParallelism, dry_run : {FALSE},
                    force : {FALSE}, cache : {FALSE}]
    /\ host = 0
    /\ parallelism = 0
    /\ permits = 0
    /\ ex = [pc |-> "idle", group |-> 0, idx |-> 0]
    /\ worker = [t \in DOMAIN config |-> "none"]
    /\ all_results = <<>>
    /\ ret = NoReturn
    /\ CacheUnused
    /\ TaskUnused
    /\ watch \in {[task |-> t, run |-> 1, stale |-> {},
                   sems |-> [r \in 1..MaxBatches |-> 0]] : t \in DOMAIN config}
    /\ CmdUnused

\* executor.execute(graph, task_name) of the initial run and of a re-run.
WatchExecuteBegin ==
    /\ ExecuteBegin
    /\ target' = watch.task

\* wait_for_change returned a matching batch after execute has returned:
\* a new Executor is made and execute is called again.  The result of the
\* run before is dropped; its workers that have not ended stay behind with
\* their semaphore.
WatchRerun ==
    /\ ex.pc = "returned"
    /\ watch.run < MaxBatches
    /\ watch' = [watch EXCEPT !.run = @ + 1,
                              !.stale = @ \cup Detached(watch.run, worker),
                              !.sems[watch.run] = permits]
    /\ ex' = [pc |-> "idle", group |-> 0, idx |-> 0]
    /\ worker' = [t \in DOMAIN config |-> "none"]
    /\ all_results' = <<>>
    /\ ret' = NoReturn
    /\ host' = 0
    /\ parallelism' = 0
    /\ permits' = 0
    /\ UNCHANGED <<gvars, cvars, tvars, xvars, execCfg>>

\* A worker of an earlier run gets a permit of the semaphore of its run.
StaleAcquire(s) ==
    /\ s \in watch.stale
    /\ s.state = "spawned"
    /\ CanAcquire(watch.sems[s.run])
    /\ watch' = [watch EXCEPT !.stale = (@ \ {s}) \cup {[s EXCEPT !.state = "running"]},
                              !.sems[s.run] = @ - 1]
    /\ UNCHANGED <<gvars, evars, cvars, tvars, xvars>>

\* A worker of an earlier run ends; its permit is dropped.
StaleEnd(s) ==
    /\ s \in watch.stale
    /\ s.state = "running"
    /\ watch' = [watch EXCEPT !.stale = @ \ {s},
                              !.sems[s.run] = @ + 1]
    /\ UNCHANGED <<gvars, evars, cvars, tvars, xvars>>

NextRerun ==
    \/ WatchExecuteBegin
    \/ SpawnTask
    \/ AwaitHandle
    \/ \E t \in DOMAIN config : WorkerAcquire(t)
    \/ \E t \in DOMAIN config : WorkerSucceed(t)
    \/ \E t \in DOMAIN config : WorkerFail(t)
    \/ \E t \in DOMAIN config : WorkerPanic(t)
    \/ WatchRerun
    \/ \E s \in watch.stale : StaleAcquire(s)
    \/ \E s \in watch.stale : StaleEnd(s)

SpecRerun == InitRerun /\ [][NextRerun]_vars

\* The instances of task t that are executing: the worker of the current
\* run and the workers of earlier runs.
Instances(t) ==
    Cardinality({s \in watch.stale : s.task = t /\ s.state = "running"})
        + (IF worker[t] = "running" THEN 1 ELSE 0)

\* C37 (as claimed): in watch mode a re-run never starts while a task of an
\* earlier run is still executing, at every moment at most one instance of
\* a task is running.
C37_OneInstance ==
    /\ (ex.pc = "idle") => \A s \in watch.stale : s.state # "running"
    /\ \A t \in DOMAIN config : Instances(t) <= 1

-----------------------------------------------------------------------------
(* Termination of Executor::execute                                        *)

\* The tokio runtime runs every task that is ready: execute itself, and
\* each worker, whose commands and scripts all terminate.
SpecExecFair ==
    /\ InitExec
    /\ [][NextExec]_vars
    /\ WF_vars(ExecuteBegin)
    /\ WF_vars(SpawnTask)
    /\ WF_vars(AwaitHandle)
    /\ \A t \in Range(ExecTasks) :
          /\ WF_vars(WorkerAcquire(t))
          /\ WF_vars(\E how \in Terminal : WorkerEnd(t, how))

\* The workers that hold a permit.
Holders == {t \in DOMAIN worker : worker[t] = "running"}

\* C38: when every command and script terminates, execute returns for every
\* plan and every effective parallelism (which is at least 1); no worker
\* waits for a permit forever, and the permits that are out are exactly
\* those of the running workers: a worker that ends, however it ends, has
\* given its permit back.
C38_ExecuteReturns ==
    /\ <>(ex.pc = "returned")
    /\ \A t \in Range(ExecTasks) : (worker[t] = "spawned") ~> (worker[t] # "spawned")
    /\ [](ex.pc \in {"spawn", "await"} => parallelism >= 1)
    /\ [](parallelism >= 1 => permits + Cardinality(Holders) = parallelism)
    /\ [][\A t \in Range(ExecTasks) :
            (worker[t] = "running" /\ worker'[t] \in Terminal) =>
                permits' = permits + 1]_vars

\* execute has returned Ok with one permit for two tasks in a group, one of
\* which failed (allow_failure) or ended otherwise than the other: a worker
\* had to wait for the permit of the other, and every permit is back.
C38_Witness ==
    /\ ex.pc = "returned"
    /\ ret.kind = "Ok"
    /\ parallelism = 1
    /\ permits = 1
    /\ Len(plan) >= 1
    /\ Len(plan[1]) >= 2
    /\ \E t, u \in DOMAIN worker : worker[t] = "fail" /\ worker[u] = "ok"

-----------------------------------------------------------------------------
(* The witness of CyclicDependency                                         *)

\* The number of positions of the sequence w that hold the name n.
Occurrences(w, n) == Cardinality({i \in 1..Len(w) : w[i] = n})

\* w lists one simple cycle of the graph of cfg: consecutive names are
\* joined by an edge, the first name is the last, no other repetition.
IsSimpleCycle(cfg, w) ==
    /\ Len(w) >= 2
    /\ \A i \in 1..(Len(w) - 1) :
          w[i] \in DOMAIN cfg /\ w[i + 1] \in DOMAIN cfg /\ w[i] \in cfg[w[i + 1]].depends
    /\ w[1] = w[Len(w)]
    /\ Occurrences(w, w[1]) = 2
    /\ \A i \in 2..(Len(w) - 1) : Occurrences(w, w[i]) = 1

\* C39 (as claimed): when from_config fails with CyclicDependency, the
\* witness lists one simple cycle of the graph, and it is never the
\* placeholder 'Unknown cycle'.
C39_SimpleCycleWitness ==
    (gphase # "config" /\ ~graphRes.ok /\ graphRes.err.kind = "CyclicDependency") =>
        /\ graphRes.err.cycle # <<"Unknown cycle">>
        /\ IsSimpleCycle(config, graphRes.err.cycle)

====
